---- MODULE Spec2Model ----
(***************************************************************************)
(* DashOrg persisted-state engine: the Persistence Store                   *)
(* (src/core/storage.js) over browser localStorage, with the wall clock    *)
(* and storage faults as its environment, the Schema Migrator              *)
(* (src/core/migrations.js) with its backup buffer, the CryptoService      *)
(* (src/core/storage.js), and the State Facade (src/core/state.js) with    *)
(* its cached document, its subscribers and its events.                    *)
(*                                                                         *)
(* Time is counted in clock ticks; a calendar day (86400000 ms) is DayLen  *)
(* ticks.  An ISO timestamp string is the tick it denotes, and             *)
(* toISOString().split('T')[0] of it is its UTC day number.                *)
(*                                                                         *)
(* A handler reads the clock several times (new Date(), Date.now()); the   *)
(* reads of one call are non-decreasing instants at most MaxDrift ticks    *)
(* apart, so midnight may fall between two reads of the same call.         *)
(***************************************************************************)
EXTENDS Integers, Sequences, FiniteSets, TLC

VARIABLES
  storage,       \* localStorage item under CONFIG.app.storageKey
  now,           \* wall clock (UTC instant, in ticks)
  backups,       \* localStorage item 'accc-backups', parsed
  migratedData,  \* what the last MigrationService.migrate call returned
  returned,      \* the last call of a reading operation: its arguments, what
                 \* it returned, and the events the Facade emitted during it
  stateManager,  \* the State Facade object: its cached document (this.state),
                 \* its subscribers (this.listeners) and the unsubscribe
                 \* handles that on() has handed out
  trace,         \* the Facade calls made so far, each followed by its emits
                 \* and by the subscriber invocations of those, in order
  pending        \* the async Facade call suspended at an await, if any

vars == <<storage, now, backups, migratedData, returned, stateManager, trace, pending>>

\* What the calls that go around the State Facade leave alone
facadeVars == <<stateManager, trace, pending>>

\* What the Persistence Store's own operations leave alone
migratorVars == <<backups, migratedData, returned, facadeVars>>

----------------------------------------------------------------------------
(* Bounds of the model *)

DayLen == 2
MaxTime == 4
MaxDrift == 1
MaxCheckIns == 2
MaxSitesAdded == 1
MaxBackupCalls == 2
MaxRepairSites == 2
MaxVersionParts == 3
MaxTransferSites == 3
MaxFacadeCalls == 3
MaxListeners == 2

----------------------------------------------------------------------------
(* Configuration (src/config.js) *)

maxHistoryEntries == 100

\* createBackup keeps the last 5 backups
maxBackups == 5

\* CONFIG.security.keyDerivationIterations
keyDerivationIterations == 100000

CurrentVersion == <<2, 1, 0>>

ConfigAutoReset == TRUE

FeatureCheckInHistory == TRUE

DefaultCategoryNames == <<"Finance", "Work", "Personal", "Social Media", "Entertainment", "Utilities">>

----------------------------------------------------------------------------
(* Values *)

\* A nullable timestamp is <<>> (null) or <<t>>.
Null == <<>>

Ts(t) == <<t>>

IsNull(x) == x = <<>>

Val(x) == x[1]

\* getState()'s null
NullState == [isNull |-> TRUE]

IsNullState(s) == "isNull" \in DOMAIN s

\* The localStorage item: absent, an unparseable string, or the JSON of a document.
NoItem == [item |-> "absent"]

CorruptItem == [item |-> "corrupt"]

Stored(doc) == [item |-> "json", doc |-> doc]

\* No migrate call has returned yet
NotMigrated == [called |-> FALSE]

\* No reading operation has been called yet
NoCall == [op |-> "none"]

\* Identifiers generateId() returns for new sites
SiteIds == {"s1"}

\* Identifiers callers pass to the Store
SiteIdArgs == {"s1", "s2"}

CredIds == {"c1", "c2"}

\* The most sites a document of the model holds
MaxSites == Cardinality(SiteIds)

\* Offsets of the user's local time from UTC, in ticks
TzOffsets == {0 - 1, 0, 1}

\* What the browser does to a localStorage call: nothing unusual, setItem over
\* quota (setItem throws), or storage disabled (getItem and setItem throw).
Faults == {"none", "quota", "disabled"}

Min(a, b) == IF a < b THEN a ELSE b

\* {...a, ...b}
Spread(a, b) == [k \in (DOMAIN a) \cup (DOMAIN b) |-> IF k \in DOMAIN b THEN b[k] ELSE a[k]]

\* A lookup that falls back to the first element when nothing matches
FindIndexOrFirst(seq, id) ==
  IF \E i \in 1..Len(seq) : seq[i].id = id
  THEN CHOOSE i \in 1..Len(seq) : seq[i].id = id /\ \A j \in 1..(i - 1) : seq[j].id # id
  ELSE IF Len(seq) > 0 THEN 1 ELSE 0

\* Array.prototype.findIndex: the first index whose element has this id, 0 for -1
FindIndex(seq, id) ==
  IF \E i \in 1..Len(seq) : seq[i].id = id
  THEN CHOOSE i \in 1..Len(seq) : seq[i].id = id /\ \A j \in 1..(i - 1) : seq[j].id # id
  ELSE 0

\* array.slice(0, n)
Slice0(seq, n) == SubSeq(seq, 1, Min(n, Len(seq)))

\* array.splice(i, 1)
Splice1(seq, i) == SubSeq(seq, 1, i - 1) \o SubSeq(seq, i + 1, Len(seq))

\* new Date(x).toISOString().split('T')[0]: the UTC calendar date of an instant
UtcDate(t) == t \div DayLen

\* The calendar date of an instant on a wall clock `off` ticks ahead of UTC
LocalDate(t, off) == (t + off) \div DayLen

\* The instants at which one call reads the clock n times, the first at `now`
ClockReads(n) ==
  { r \in [1..n -> now..Min(now + MaxDrift, MaxTime)] :
      r[1] = now /\ \A i \in 1..(n - 1) : r[i] <= r[i + 1] }

\* StateManager.isToday, the clock reading t
isToday(dateString, t) == UtcDate(t) = UtcDate(dateString)

DeviceInfo == "device"

----------------------------------------------------------------------------
(* safeLocalStorage (src/shared/constants.js) and StorageService state access.
   Each operator takes the item `st` currently stored and the fault `f` the
   browser raises during this call. *)

\* safeLocalStorage.getItem: the item, or null when localStorage throws
GetItem(st, f) == IF f = "disabled" THEN NoItem ELSE st

\* safeLocalStorage.setItem: catches the exception and returns false
SetItemResult(f) == f = "none"

SetItem(st, value, f) == IF SetItemResult(f) THEN value ELSE st

\* StorageService.getState: null for a missing item and for unparseable JSON
GetState(st, f) ==
  LET data == GetItem(st, f)
  IN IF data.item = "json" THEN data.doc ELSE NullState

\* StorageService.setState: the item afterwards
SetState(st, state, f) == SetItem(st, Stored(state), f)

\* StorageService.setState: its return value (setItem's boolean is dropped)
SetStateResult(state, f) == TRUE

Bool(b) == IF b THEN "true" ELSE "false"

----------------------------------------------------------------------------
(* Versions (src/core/migrations.js).  A version string is the sequence of the
   numbers between its dots, which is what split('.').map(Number) makes of it. *)

Max(a, b) == IF a > b THEN a ELSE b

VersionPart(parts, i) == IF i <= Len(parts) THEN parts[i] ELSE 0

\* MigrationService.compareVersions
compareVersions(v1, v2) ==
  LET differ == { i \in 1..Max(Len(v1), Len(v2)) : VersionPart(v1, i) # VersionPart(v2, i) }
  IN IF differ = {} THEN 0
     ELSE LET i == CHOOSE k \in differ : \A j \in differ : k <= j
          IN IF VersionPart(v1, i) < VersionPart(v2, i) THEN 0 - 1 ELSE 1

\* MigrationService.needsMigration
needsMigration(data) ==
  IF IsNullState(data) THEN TRUE
  ELSE IF "version" \notin DOMAIN data THEN TRUE
  ELSE compareVersions(data.version, CurrentVersion) < 0

\* A version string as it is written: the components between its dots, each
\* the sequence of its decimal digits ("2.10.0" is <<<<2>>, <<1, 0>>, <<0>>>>).

\* Number(component)
RECURSIVE NumberOf(_)
NumberOf(digits) ==
  IF digits = <<>> THEN 0
  ELSE 10 * NumberOf(SubSeq(digits, 1, Len(digits) - 1)) + digits[Len(digits)]

\* v.split('.').map(Number)
SplitVersion(v) == [i \in 1..Len(v) |-> NumberOf(v[i])]

\* The characters of a version string, a dot being -1 (it sorts before the digits)
RECURSIVE TextOf(_)
TextOf(v) ==
  IF Len(v) = 0 THEN <<>>
  ELSE IF Len(v) = 1 THEN v[1]
  ELSE v[1] \o <<0 - 1>> \o TextOf(Tail(v))

\* compareVersions comparing the two strings character by character
compareVersionsAsText(v1, v2) ==
  LET a == TextOf(v1)
      b == TextOf(v2)
      differ == { i \in 1..Min(Len(a), Len(b)) : a[i] # b[i] }
  IN IF differ = {}
     THEN (IF Len(a) < Len(b) THEN 0 - 1 ELSE IF Len(a) > Len(b) THEN 1 ELSE 0)
     ELSE LET i == CHOOSE k \in differ : \A j \in differ : k <= j
          IN IF a[i] < b[i] THEN 0 - 1 ELSE 1

\* MigrationService.compareVersions, from the strings it is given
compareVersionStrings(v1, v2) ==
  compareVersions(SplitVersion(v1), SplitVersion(v2))

----------------------------------------------------------------------------
(* Documents *)

DefaultCategories ==
  [i \in 1..Len(DefaultCategoryNames) |->
     [id |-> i, name |-> DefaultCategoryNames[i], order |-> i - 1]]

ZeroAnalytics ==
  [totalCheckIns |-> 0, currentStreak |-> 0, longestStreak |-> 0, averageDaily |-> 0,
   sitesAdded |-> 0, sitesArchived |-> 0, lastCheckIn |-> Null]

\* StorageService.initializeDefaultState's document, the clock read at t
DefaultState(t) ==
  [version |-> CurrentVersion,
   lastReset |-> UtcDate(t),
   settings |-> [autoReset |-> ConfigAutoReset],
   categories |-> DefaultCategories,
   sites |-> <<>>,
   analytics |-> ZeroAnalytics]

InitializeDefaultState(st, t, f) == SetState(st, DefaultState(t), f)

\* A credential as CredentialsService.addCredential creates it
NewCredential(id) == [id |-> id, checkedInOn |-> Null, checkInHistory |-> <<>>]

----------------------------------------------------------------------------
(* Daily reset *)

\* A reset that also empties the history
ClearCheckedInAndHistory(sites) ==
  [i \in 1..Len(sites) |->
     [sites[i] EXCEPT !.credentials =
        [j \in 1..Len(sites[i].credentials) |->
           [sites[i].credentials[j] EXCEPT !.checkedInOn = Null, !.checkInHistory = <<>>]]]]

\* resetAllCredentials' loops over sites and credentials
ClearCheckedIn(sites) ==
  [i \in 1..Len(sites) |->
     [sites[i] EXCEPT !.credentials =
        [j \in 1..Len(sites[i].credentials) |->
           [sites[i].credentials[j] EXCEPT !.checkedInOn = Null]]]]

\* StorageService.resetAllCredentials, the clock read at t
ResetAllCredentials(st, t, f) ==
  LET state == GetState(st, f)
  IN IF IsNullState(state) THEN [storage |-> st, result |-> "false"]
     ELSE LET next == [state EXCEPT !.sites = ClearCheckedIn(state.sites),
                                    !.lastReset = UtcDate(t)]
          IN [storage |-> SetState(st, next, f), result |-> "true"]

\* A daily reset that does not look at settings.autoReset
CheckDailyResetIgnoringSetting(st, t0, t1, f) ==
  LET state == GetState(st, f)
  IN IF IsNullState(state) THEN st
     ELSE IF state.lastReset # UtcDate(t0) THEN ResetAllCredentials(st, t1, f).storage
     ELSE st

\* StorageService.checkDailyReset, the clock read at t0 and, in the reset, at t1
CheckDailyReset(st, t0, t1, f) ==
  LET state == GetState(st, f)
  IN IF IsNullState(state) THEN st
     ELSE IF ~state.settings.autoReset THEN st
     ELSE IF state.lastReset # UtcDate(t0) THEN ResetAllCredentials(st, t1, f).storage
     ELSE st

\* A start-up that bootstraps only when the item is missing
StorageInitTrustingItem(st, r, f) ==
  LET st1 == IF GetItem(st, f).item = "absent" THEN InitializeDefaultState(st, r[1], f) ELSE st
  IN CheckDailyReset(st1, r[2], r[3], f)

\* StorageService.init
StorageInit(st, r, f) ==
  LET existingData == GetState(st, f)
      st1 == IF IsNullState(existingData) THEN InitializeDefaultState(st, r[1], f) ELSE st
  IN CheckDailyReset(st1, r[2], r[3], f)

----------------------------------------------------------------------------
(* Streak *)

\* A streak update that leaves longestStreak alone
UpdateStreakWithoutLongest(state, today, dateNow) ==
  LET a == state.analytics
      lastCheckIn == a.lastCheckIn
  IN IF IsNull(lastCheckIn)
     THEN [state EXCEPT !.analytics.currentStreak = 1]
     ELSE LET lastDate == UtcDate(Val(lastCheckIn))
              yesterday == UtcDate(dateNow - DayLen)
              current == IF lastDate = yesterday THEN a.currentStreak + 1
                         ELSE IF lastDate # today THEN 1
                         ELSE a.currentStreak
          IN [state EXCEPT !.analytics.currentStreak = current]

\* A streak update that counts a second check-in of the same day
UpdateStreakCountingSameDay(state, today, dateNow) ==
  LET a == state.analytics
      lastCheckIn == a.lastCheckIn
  IN IF IsNull(lastCheckIn)
     THEN [state EXCEPT !.analytics.currentStreak = 1]
     ELSE LET lastDate == UtcDate(Val(lastCheckIn))
              yesterday == UtcDate(dateNow - DayLen)
              current == IF lastDate = yesterday \/ lastDate = today THEN a.currentStreak + 1
                         ELSE 1
              longest == IF current > a.longestStreak THEN current ELSE a.longestStreak
          IN [state EXCEPT !.analytics.currentStreak = current,
                           !.analytics.longestStreak = longest]

\* StorageService.updateStreak: today read at line 290, Date.now() at line 299
UpdateStreak(state, today, dateNow) ==
  LET a == state.analytics
      lastCheckIn == a.lastCheckIn
  IN IF IsNull(lastCheckIn)
     THEN [state EXCEPT !.analytics.currentStreak = 1]
     ELSE LET lastDate == UtcDate(Val(lastCheckIn))
              yesterday == UtcDate(dateNow - DayLen)
              current == IF lastDate = yesterday THEN a.currentStreak + 1
                         ELSE IF lastDate # today THEN 1
                         ELSE a.currentStreak
              longest == IF current > a.longestStreak THEN current ELSE a.longestStreak
          IN [state EXCEPT !.analytics.currentStreak = current,
                           !.analytics.longestStreak = longest]

\* A cap that keeps the end of the list, dropping the entry just added
PushHistoryKeepingTail(history, t) ==
  IF FeatureCheckInHistory
  THEN LET h == <<[timestamp |-> t, device |-> DeviceInfo]>> \o history
       IN IF Len(h) > maxHistoryEntries THEN SubSeq(h, Len(h) - maxHistoryEntries + 1, Len(h)) ELSE h
  ELSE history

\* checkInHistory after unshift and the cap (storage.js 210-221)
PushHistory(history, t) ==
  IF FeatureCheckInHistory
  THEN LET h == <<[timestamp |-> t, device |-> DeviceInfo]>> \o history
       IN IF Len(h) > maxHistoryEntries THEN Slice0(h, maxHistoryEntries) ELSE h
  ELSE history

\* StorageService.checkInCredential: r[1] is `now`, r[2] and r[3] updateStreak's reads
CheckInCredential(st, siteId, credentialId, r, f) ==
  LET state == GetState(st, f)
  IN IF IsNullState(state) THEN [storage |-> st, result |-> "false"]
     ELSE LET si == FindIndex(state.sites, siteId)
          IN IF si = 0 THEN [storage |-> st, result |-> "false"]
             ELSE LET ci == FindIndex(state.sites[si].credentials, credentialId)
                  IN IF ci = 0 THEN [storage |-> st, result |-> "false"]
                     ELSE LET cred == state.sites[si].credentials[ci]
                              checked == [cred EXCEPT
                                            !.checkedInOn = Ts(r[1]),
                                            !.checkInHistory = PushHistory(cred.checkInHistory, r[1])]
                              s1 == [state EXCEPT
                                       !.sites[si].credentials[ci] = checked,
                                       !.analytics.totalCheckIns = @ + 1,
                                       !.analytics.lastCheckIn = Ts(r[1])]
                              s2 == UpdateStreak(s1, UtcDate(r[2]), r[3])
                          IN [storage |-> SetState(st, s2, f),
                              result |-> "true"]

\* StorageService.resetCredential
ResetCredential(st, siteId, credentialId, f) ==
  LET state == GetState(st, f)
  IN IF IsNullState(state) THEN [storage |-> st, result |-> "false"]
     ELSE LET si == FindIndex(state.sites, siteId)
          IN IF si = 0 THEN [storage |-> st, result |-> "false"]
             ELSE LET ci == FindIndex(state.sites[si].credentials, credentialId)
                  IN IF ci = 0 THEN [storage |-> st, result |-> "false"]
                     ELSE [storage |-> SetState(st, [state EXCEPT
                                         !.sites[si].credentials[ci].checkedInOn = Null], f),
                           result |-> "true"]

\* CredentialsService.toggleCheckIn: r[1] is isToday's clock read, the rest are
\* checkInCredential's
ToggleCheckIn(st, siteId, credentialId, r, f) ==
  LET state == GetState(st, f)
      sites == IF IsNullState(state) THEN <<>> ELSE state.sites
      si == FindIndex(sites, siteId)
      ci == IF si = 0 THEN 0 ELSE FindIndex(sites[si].credentials, credentialId)
  IN IF ci = 0 THEN [storage |-> st, result |-> "false"]
     ELSE LET credential == sites[si].credentials[ci]
              isCheckedToday == /\ ~IsNull(credential.checkedInOn)
                                /\ isToday(Val(credential.checkedInOn), r[1])
          IN IF isCheckedToday
             THEN ResetCredential(st, siteId, credentialId, f)
             ELSE CheckInCredential(st, siteId, credentialId, SubSeq(r, 2, 4), f)

----------------------------------------------------------------------------
(* Site CRUD, partial update, import, clear *)

\* StorageService.addSite: newId is generateId()'s value, r the two clock reads
AddSite(st, siteData, newId, r, f) ==
  LET state == GetState(st, f)
  IN IF IsNullState(state) THEN [storage |-> st, result |-> "null"]
     ELSE LET newSite == Spread([id |-> newId, createdAt |-> r[1], updatedAt |-> r[2]], siteData)
              next == [state EXCEPT !.sites = Append(@, newSite),
                                    !.analytics.sitesAdded = @ + 1]
          IN [storage |-> SetState(st, next, f), result |-> "object"]

\* StorageService.updateSite
UpdateSite(st, id, updates, t, f) ==
  LET state == GetState(st, f)
  IN IF IsNullState(state) THEN [storage |-> st, result |-> "false"]
     ELSE LET siteIndex == FindIndex(state.sites, id)
          IN IF siteIndex = 0 THEN [storage |-> st, result |-> "false"]
             ELSE LET site == Spread(Spread(state.sites[siteIndex], updates), [updatedAt |-> t])
                      next == [state EXCEPT !.sites[siteIndex] = site]
                  IN [storage |-> SetState(st, next, f), result |-> "true"]

\* StorageService.deleteSite
DeleteSite(st, id, f) ==
  LET state == GetState(st, f)
  IN IF IsNullState(state) THEN [storage |-> st, result |-> "false"]
     ELSE LET siteIndex == FindIndex(state.sites, id)
          IN IF siteIndex = 0 THEN [storage |-> st, result |-> "false"]
             ELSE LET next == [state EXCEPT !.sites = Splice1(@, siteIndex),
                                            !.analytics.sitesArchived = @ + 1]
                  IN [storage |-> SetState(st, next, f), result |-> "true"]

\* StorageService.updateState
UpdateState(st, updates, f) ==
  LET currentState == GetState(st, f)
  IN IF IsNullState(currentState) THEN [storage |-> st, result |-> "false"]
     ELSE LET newState == Spread(currentState, updates)
          IN [storage |-> SetState(st, newState, f),
              result |-> Bool(SetStateResult(newState, f))]

\* StorageService.addCategory: newId is generateId()'s value
AddCategory(st, categoryData, newId, f) ==
  LET state == GetState(st, f)
  IN IF IsNullState(state) THEN [storage |-> st, result |-> "null"]
     ELSE LET newCategory == Spread([id |-> newId, order |-> Len(state.categories)], categoryData)
              next == [state EXCEPT !.categories = Append(@, newCategory)]
          IN [storage |-> SetState(st, next, f), result |-> "object"]

\* An import that lets the imported object's other fields overwrite the document's
ImportDataOverwriting(st, input, f) ==
  IF input.parse # "json" THEN [storage |-> st, result |-> "false"]
  ELSE LET data == input.data
       IN IF "sites" \notin DOMAIN data THEN [storage |-> st, result |-> "false"]
          ELSE LET state == GetState(st, f)
               IN IF IsNullState(state) THEN [storage |-> st, result |-> "false"]
                  ELSE LET merged ==
                             Spread(Spread(state, data),
                                    [sites |-> state.sites \o data.sites])
                       IN [storage |-> SetState(st, merged, f), result |-> "true"]

\* StorageService.importData of a string that is not an encrypted envelope:
\* input.parse says whether JSON.parse accepts it, input.data is the parsed object
ImportData(st, input, f) ==
  IF input.parse # "json" THEN [storage |-> st, result |-> "false"]
  ELSE LET data == input.data
       IN IF "sites" \notin DOMAIN data THEN [storage |-> st, result |-> "false"]
          ELSE LET state == GetState(st, f)
               IN IF IsNullState(state) THEN [storage |-> st, result |-> "false"]
                  ELSE LET merged ==
                             Spread(state,
                                    [sites |-> state.sites \o data.sites,
                                     categories |-> IF "categories" \in DOMAIN data
                                                    THEN data.categories
                                                    ELSE state.categories])
                       IN [storage |-> SetState(st, merged, f), result |-> "true"]

\* safeLocalStorage.removeItem, as StorageService.clearAllData calls it
ClearAllData(st, f) == IF f = "disabled" THEN st ELSE NoItem

----------------------------------------------------------------------------
(* Schema Migrator (src/core/migrations.js).  A property an object lacks is a
   key outside the record's DOMAIN; the values the model stores under a key
   are truthy or equal the default, so `x.k || d` is OrDefault(x, "k", d). *)

\* x[key] || dflt
OrDefault(x, key, dflt) == IF key \in DOMAIN x THEN x[key] ELSE dflt

\* {}
EmptyObject == [k \in {} |-> k]

\* The entries of this.migrations, in order
MigrationVersions == << <<1, 0, 0>>, <<2, 0, 0>> >>

\* data.version || '0.0.0'
DataVersion(data) == OrDefault(data, "version", <<0, 0, 0>>)

\* MigrationService.migrateTo1_0_0, the clock read at t
migrateTo1_0_0(data, t) ==
  [version |-> <<1, 0, 0>>,
   lastReset |-> UtcDate(t),
   settings |-> OrDefault(data, "settings", EmptyObject),
   categories |-> OrDefault(data, "categories", <<>>),
   sites |-> OrDefault(data, "sites", <<>>),
   analytics |-> [totalCheckIns |-> 0, currentStreak |-> 0, longestStreak |-> 0,
                  averageDaily |-> 0,
                  sitesAdded |-> IF "sites" \in DOMAIN data THEN Len(data.sites) ELSE 0,
                  sitesArchived |-> 0]]

\* MigrationService.getFaviconFromUrl: null when new URL(url) throws
getFaviconFromUrl(site) ==
  IF "url" \in DOMAIN site THEN [origin |-> site.url, path |-> "/favicon.ico"] ELSE Null

DefaultNotifications == [enabled |-> TRUE, reminderTime |-> "09:00", staleDays |-> 7]

DefaultSecurity ==
  [masterPasswordEnabled |-> FALSE, autoLockMinutes |-> 15,
   clipboardClearSeconds |-> 30, requireAuthOnStart |-> FALSE]

DefaultDisplay ==
  [density |-> "comfortable", cardsPerRow |-> "auto", showFavicons |-> TRUE,
   showLastCheckin |-> TRUE]

DefaultMetadata ==
  [loginFrequency |-> "daily", importance |-> "normal", lastIssue |-> Null,
   averageCheckInTime |-> "09:00"]

\* The settings object migrateTo2_0_0 builds (lines 80-102)
MigratedSettings(s0) ==
  [theme |-> OrDefault(s0, "theme", "auto"),
   viewMode |-> OrDefault(s0, "viewMode", "grid"),
   autoReset |-> IF "autoReset" \in DOMAIN s0 THEN s0.autoReset # FALSE ELSE TRUE,
   resetTime |-> OrDefault(s0, "resetTime", "00:00"),
   notifications |-> OrDefault(s0, "notifications", DefaultNotifications),
   security |-> OrDefault(s0, "security", DefaultSecurity),
   display |-> OrDefault(s0, "display", DefaultDisplay)]

\* One credential under migrateTo2_0_0 (lines 117-125); lastPasswordChange stays
\* undefined when neither it nor site.createdAt is there
MigratedCredential(cred, site) ==
  LET filled == Spread(cred,
                  [customFields |-> OrDefault(cred, "customFields", <<>>),
                   checkInHistory |-> OrDefault(cred, "checkInHistory", <<>>),
                   passwordExpiry |-> OrDefault(cred, "passwordExpiry", Null),
                   strength |-> OrDefault(cred, "strength", "unknown"),
                   breached |-> OrDefault(cred, "breached", FALSE)])
  IN IF "lastPasswordChange" \in DOMAIN cred THEN filled
     ELSE IF "createdAt" \in DOMAIN site
          THEN Spread(filled, [lastPasswordChange |-> site.createdAt])
          ELSE filled

\* One site under migrateTo2_0_0 (lines 106-126)
MigratedSite(site) ==
  LET credentials == OrDefault(site, "credentials", <<>>)
  IN Spread(site,
       [favicon |-> OrDefault(site, "favicon", getFaviconFromUrl(site)),
        priority |-> OrDefault(site, "priority", 0),
        color |-> OrDefault(site, "color", "#3b82f6"),
        metadata |-> OrDefault(site, "metadata", DefaultMetadata),
        credentials |-> [j \in 1..Len(credentials) |-> MigratedCredential(credentials[j], site)]])

\* MigrationService.migrateTo2_0_0
migrateTo2_0_0(data) ==
  LET withSettings == Spread(data, [settings |-> MigratedSettings(OrDefault(data, "settings", EmptyObject))])
      withSites == IF "sites" \in DOMAIN withSettings
                   THEN Spread(withSettings,
                          [sites |-> [i \in 1..Len(data.sites) |-> MigratedSite(data.sites[i])]])
                   ELSE withSettings
  IN IF "analytics" \in DOMAIN withSites THEN withSites
     ELSE Spread(withSites,
            [analytics |-> [totalCheckIns |-> 0, currentStreak |-> 0, longestStreak |-> 0,
                            averageDaily |-> 0,
                            sitesAdded |-> IF "sites" \in DOMAIN withSites
                                           THEN Len(withSites.sites) ELSE 0,
                            sitesArchived |-> 0,
                            lastCheckIn |-> Null]])

\* The migration registered for this version, applied
ApplyMigration(version, data, t) ==
  IF version = <<1, 0, 0>> THEN migrateTo1_0_0(data, t) ELSE migrateTo2_0_0(data)

\* The loop of migrate over this.migrations: dataVersion is the version the
\* input had
RunMigrations(data, dataVersion, t) ==
  LET Run[k \in 1..(Len(MigrationVersions) + 1)] ==
        IF k = 1 THEN data
        ELSE LET version == MigrationVersions[k - 1]
             IN IF compareVersions(dataVersion, version) < 0
                THEN Spread(ApplyMigration(version, Run[k - 1], t), [version |-> version])
                ELSE Run[k - 1]
  IN Run[Len(MigrationVersions) + 1]

\* A migrate whose version test is the wrong way round
migrateComparingBackwards(data, t) ==
  IF IsNullState(data) THEN NullState
  ELSE LET Run[k \in 1..(Len(MigrationVersions) + 1)] ==
             IF k = 1 THEN data
             ELSE LET version == MigrationVersions[k - 1]
                  IN IF compareVersions(DataVersion(data), version) > 0
                     THEN Spread(ApplyMigration(version, Run[k - 1], t), [version |-> version])
                     ELSE Run[k - 1]
       IN Run[Len(MigrationVersions) + 1]

\* MigrationService.migrate, the clock reading t
migrate(data, t) ==
  IF IsNullState(data) THEN NullState
  ELSE RunMigrations(data, DataVersion(data), t)

\* Whether migrate applies a migration to this document
AppliesMigration(data) ==
  /\ ~IsNullState(data)
  /\ \E i \in 1..Len(MigrationVersions) :
       compareVersions(DataVersion(data), MigrationVersions[i]) < 0

\* createBackup pushing the new backup at the end of the buffer
CreateBackupAtEnd(buffer, data, t, f) ==
  LET backup == [data |-> data, timestamp |-> t, version |-> OrDefault(data, "version", "unknown")]
  IN IF f = "none" THEN Slice0(buffer \o <<backup>>, maxBackups) ELSE buffer

\* MigrationService.createBackup: the buffer afterwards
CreateBackup(buffer, data, t, f) ==
  LET backup == [data |-> data, timestamp |-> t, version |-> OrDefault(data, "version", "unknown")]
  IN IF f = "none" THEN Slice0(<<backup>> \o buffer, maxBackups) ELSE buffer

\* MigrationService.createBackup: its return value
CreateBackupResult(f) == f = "none"

\* MigrationService.restoreBackup(index): backups[index].data, or null when
\* there is no such entry or the buffer cannot be read
RestoreBackup(buffer, index, f) ==
  IF f = "disabled" THEN NullState
  ELSE IF index + 1 \in 1..Len(buffer) THEN buffer[index + 1].data
  ELSE NullState

----------------------------------------------------------------------------
(* Validation and repair (src/core/migrations.js).  The documents they are
   given may hold anything where an array is expected, so here a value read
   from such a place carries its type: Arr(items) is an array, NonArray a
   truthy value that is none (an object, a string).  A falsy property
   (undefined, null, '') is a key outside the record's DOMAIN; a null element
   of an array is NullState. *)

Arr(items) == [type |-> "array", items |-> items]

NonArray == [type |-> "object"]

\* Array.isArray(v)
IsArray(v) == v.type = "array"

\* The call threw
Raised == [raised |-> TRUE]

\* The call returned v
Returns(v) == [raised |-> FALSE, value |-> v]

\* One message of validateData about site number index (from 0)
SiteError(what, index) == [error |-> what, site |-> index]

\* The body of validateData's forEach for one site
SiteErrors(site, index) ==
  (IF "id" \notin DOMAIN site THEN <<SiteError("missing ID", index)>> ELSE <<>>)
  \o (IF "name" \notin DOMAIN site THEN <<SiteError("missing name", index)>> ELSE <<>>)
  \o (IF "url" \notin DOMAIN site THEN <<SiteError("missing URL", index)>> ELSE <<>>)
  \o (IF "credentials" \notin DOMAIN site \/ ~IsArray(site.credentials)
      THEN <<SiteError("credentials must be an array", index)>> ELSE <<>>)

\* The messages of the first n sites, in order
RECURSIVE AllSiteErrors(_, _)
AllSiteErrors(sites, n) ==
  IF n = 0 THEN <<>>
  ELSE AllSiteErrors(sites, n - 1) \o SiteErrors(sites[n], n - 1)

\* MigrationService.validateData.  forEach of a value that is no array, and
\* site.id of a null site, are TypeErrors.
validateData(data) ==
  IF IsNullState(data)
  THEN Returns([valid |-> FALSE, errors |-> <<[error |-> "Data is null or undefined"]>>])
  ELSE
    LET sitesErrors == IF "sites" \notin DOMAIN data \/ ~IsArray(data.sites)
                       THEN <<[error |-> "Sites must be an array"]>> ELSE <<>>
        categoriesErrors == IF "categories" \notin DOMAIN data \/ ~IsArray(data.categories)
                            THEN <<[error |-> "Categories must be an array"]>> ELSE <<>>
    IN IF "sites" \notin DOMAIN data
       THEN Returns([valid |-> FALSE, errors |-> sitesErrors \o categoriesErrors])
       ELSE IF ~IsArray(data.sites) THEN Raised
       ELSE IF \E i \in 1..Len(data.sites.items) : IsNullState(data.sites.items[i]) THEN Raised
       ELSE LET errors == sitesErrors \o categoriesErrors
                            \o AllSiteErrors(data.sites.items, Len(data.sites.items))
            IN Returns([valid |-> errors = <<>>, errors |-> errors])

\* The analytics repairData supplies
RepairedAnalytics ==
  [totalCheckIns |-> 0, currentStreak |-> 0, longestStreak |-> 0, averageDaily |-> 0,
   sitesAdded |-> 0, sitesArchived |-> 0]

\* site => site && site.id && site.name
KeepsSite(site) == ~IsNullState(site) /\ "id" \in DOMAIN site /\ "name" \in DOMAIN site

\* c => c && c.id && c.email
KeepsCredential(c) == ~IsNullState(c) /\ "id" \in DOMAIN c /\ "email" \in DOMAIN c

\* The map step of repairData for one site
RepairedSite(site) ==
  Spread(site,
         [credentials |->
            Arr(SelectSeq(OrDefault(site, "credentials", Arr(<<>>)).items, KeepsCredential))])

\* MigrationService.repairData.  filter of a value that is no array is a
\* TypeError.
repairData(data) ==
  LET d == IF IsNullState(data) THEN EmptyObject ELSE data
      repaired ==
        Spread(d, [version |-> OrDefault(d, "version", <<1, 0, 0>>),
                   sites |-> OrDefault(d, "sites", Arr(<<>>)),
                   categories |-> OrDefault(d, "categories", Arr(<<>>)),
                   settings |-> OrDefault(d, "settings", EmptyObject),
                   analytics |-> OrDefault(d, "analytics", RepairedAnalytics)])
      kept == SelectSeq(repaired.sites.items, KeepsSite)
  IN IF ~IsArray(repaired.sites) THEN Raised
     ELSE IF \E i \in 1..Len(kept) :
               "credentials" \in DOMAIN kept[i] /\ ~IsArray(kept[i].credentials)
          THEN Raised
     ELSE Returns(Spread(repaired,
                         [sites |-> Arr([i \in 1..Len(kept) |-> RepairedSite(kept[i])])]))

----------------------------------------------------------------------------
(* Export and import (src/core/storage.js, src/core/state.js).  A string is
   what JSON.parse makes of it: [parse |-> "json", data |-> d] is the JSON text
   of d, anything else makes JSON.parse throw.  Documents came out of
   JSON.parse, so JSON.stringify followed by JSON.parse gives them back. *)

\* JSON.stringify(data, null, 2)
JsonStringify(data) == [parse |-> "json", data |-> data]

\* A password argument: null, or a string
NoPassword == NullState

Password(text) == [text |-> text]

\* Whether `password` is truthy
HasPassword(password) == ~IsNullState(password) /\ password.text # ""

\* What crypto.getRandomValues may return for a salt and for an iv
Salts == { "salt1", "salt2" }

Ivs == { "iv1", "iv2" }

\* generateSalt() and generateIV() of one encrypt call: any of the values, in
\* no way tied to the payload, the password or earlier calls
RandomDraws == [salt : Salts, iv : Ivs]

\* encrypt taking the same salt and iv at every call
EncryptWithFixedRandom(data, password, random) ==
  [salt |-> "salt1", iv |-> "iv1",
   data |-> [sealed |-> data, key |-> password.text, salt |-> "salt1", iv |-> "iv1",
             bits |-> "sealed"],
   algorithm |-> "AES-GCM", iterations |-> keyDerivationIterations]

\* CryptoService.encrypt: the envelope.  The ciphertext (data) is the payload
\* sealed by AES-GCM under the key derived from the password and the salt,
\* with the iv; salt and iv are the random bytes drawn for this call.
Encrypt(data, password, random) ==
  [salt |-> random.salt, iv |-> random.iv,
   data |-> [sealed |-> data, key |-> password.text,
             salt |-> random.salt, iv |-> random.iv, bits |-> "sealed"],
   algorithm |-> "AES-GCM", iterations |-> keyDerivationIterations]

\* An envelope somebody has altered: bits of the ciphertext, the salt or the iv
Altered(envelope, part) ==
  CASE part = "data" -> [envelope EXCEPT !.data.bits = "altered"]
    [] part = "salt" -> [envelope EXCEPT !.salt = "altered"]
    [] part = "iv"   -> [envelope EXCEPT !.iv = "altered"]
    [] OTHER         -> envelope

\* decrypt opening the envelope whatever the password
DecryptsWithAnyPassword(envelope, password) == TRUE

\* decrypt not checking the authentication tag of the ciphertext
DecryptsUnauthenticated(envelope, password) == envelope.data.key = password.text

\* CryptoService.decrypt: whether it returns (it throws otherwise).  AES-GCM
\* opens the ciphertext only under the key and the iv that sealed it, and
\* only when no bit of it has changed.
Decrypts(envelope, password) ==
  /\ envelope.data.key = password.text
  /\ envelope.data.salt = envelope.salt
  /\ envelope.data.iv = envelope.iv
  /\ envelope.data.bits = "sealed"

\* CryptoService.decrypt: what it returns; what an altered ciphertext would
\* open to is not the payload
Decrypt(envelope, password) ==
  IF envelope.data.bits = "sealed" THEN envelope.data.sealed
  ELSE [corrupted |-> envelope.data.sealed]

\* CryptoService.decrypt as its caller sees it: the payload, or the one error
\* every failure is turned into
DecryptOutcome(envelope, password) ==
  IF Decrypts(envelope, password)
  THEN [thrown |-> "none", value |-> Decrypt(envelope, password)]
  ELSE [thrown |-> "Failed to decrypt data - incorrect password or corrupted data"]

\* CryptoService.encryptField(value, password), value a non-empty string
EncryptField(value, password, random) == Encrypt([value |-> value], password, random)

\* CryptoService.decryptField(encryptedObject, password): the value, or ''
\* when decrypt throws
DecryptField(envelope, password) ==
  LET out == DecryptOutcome(envelope, password)
  IN IF out.thrown = "none" THEN OrDefault(out.value, "value", "") ELSE ""

\* `"${cell}"`
Quoted(cell) == [quoted |-> cell]

\* The header row of convertToCSV
CsvHeader == <<"Site Name", "URL", "Category", "Email", "Label", "Tags">>

\* The row of convertToCSV for one credential of one site; a missing property
\* prints as undefined, and tags are held joined
CsvRow(site, cred) ==
  << OrDefault(site, "name", "undefined"),
     OrDefault(site, "url", "undefined"),
     OrDefault(site, "category", ""),
     OrDefault(cred, "email", "undefined"),
     OrDefault(cred, "label", "undefined"),
     OrDefault(site, "tags", "") >>

\* The rows of the first n sites, in order
RECURSIVE CsvRows(_, _)
CsvRows(sites, n) ==
  IF n = 0 THEN <<>>
  ELSE CsvRows(sites, n - 1)
         \o [j \in 1..Len(sites[n].credentials) |-> CsvRow(sites[n], sites[n].credentials[j])]

\* StorageService.convertToCSV: the text, as its lines of quoted cells
convertToCSV(data) ==
  LET rows == <<CsvHeader>> \o CsvRows(data.sites, Len(data.sites))
  IN [parse |-> "csv",
      lines |-> [i \in 1..Len(rows) |-> [j \in 1..Len(rows[i]) |-> Quoted(rows[i][j])]]]

\* data.sites with every credential's checkInHistory emptied
WithoutHistory(sites) ==
  [i \in 1..Len(sites) |->
     Spread(sites[i],
            [credentials |->
               [j \in 1..Len(sites[i].credentials) |->
                  Spread(sites[i].credentials[j], [checkInHistory |-> <<>>])]])]

\* exportData emptying every history whatever includeHistory says
ExportDataWithoutHistory(st, format, includeHistory, encrypt, password, random, t, f) ==
  LET state == GetState(st, f)
  IN IF IsNullState(state) THEN NullState
     ELSE LET full == Spread(state, [exportedAt |-> t, version |-> CurrentVersion])
              data == Spread(full, [sites |-> WithoutHistory(full.sites)])
          IN IF encrypt /\ HasPassword(password) THEN JsonStringify(Encrypt(data, password, random))
             ELSE IF format = "json" THEN JsonStringify(data)
             ELSE IF format = "csv" THEN convertToCSV(data)
             ELSE NullState

\* StorageService.exportData, the clock read at t and the random bytes an
\* encryption would draw: the string it returns, or null
ExportData(st, format, includeHistory, encrypt, password, random, t, f) ==
  LET state == GetState(st, f)
  IN IF IsNullState(state) THEN NullState
     ELSE LET full == Spread(state, [exportedAt |-> t, version |-> CurrentVersion])
              data == IF includeHistory THEN full
                      ELSE Spread(full, [sites |-> WithoutHistory(full.sites)])
          IN IF encrypt /\ HasPassword(password) THEN JsonStringify(Encrypt(data, password, random))
             ELSE IF format = "json" THEN JsonStringify(data)
             ELSE IF format = "csv" THEN convertToCSV(data)
             ELSE NullState

\* StateManager.exportData: what it returns and the events it emits
FacadeExportData(st, format, includeHistory, encrypt, password, random, t, f) ==
  LET data == ExportData(st, format, includeHistory, encrypt, password, random, t, f)
  IN [value |-> data,
      events |-> IF IsNullState(data) THEN <<>> ELSE <<"export:completed">>]

\* Whether importData finds an envelope to decrypt: data.algorithm && password
IsEncrypted(input, password) ==
  /\ input.parse = "json"
  /\ "algorithm" \in DOMAIN input.data
  /\ HasPassword(password)

\* StorageService.importData(dataString, password): an envelope given with a
\* password is decrypted first, and the import goes on with what it held; a
\* sites property that is no array counts as missing
ImportDataWithPassword(st, input, password, f) ==
  IF IsEncrypted(input, password)
  THEN IF Decrypts(input.data, password)
       THEN ImportData(st, JsonStringify(Decrypt(input.data, password)), f)
       ELSE [storage |-> st, result |-> "false"]
  ELSE ImportData(st, input, f)

\* StateManager.importData: the Store's outcome and the events emitted
FacadeImportData(st, input, password, f) ==
  LET out == ImportDataWithPassword(st, input, password, f)
  IN [storage |-> out.storage, result |-> out.result,
      events |-> IF out.result = "true"
                 THEN <<"import:completed", "state:changed">> ELSE <<>>]

----------------------------------------------------------------------------
(* The State Facade (StateManager, src/core/state.js): the cached document,
   the subscribers and the events.  A Facade call works on the record fs of
   all it reads and changes: the stored item, the Facade's fields, the trace
   of the call so far, how deep in subscriber re-entry it runs, and its
   result. *)

\* EVENTS
AllEvents ==
  { "state:changed", "site:added", "site:updated", "site:deleted",
    "credential:checked", "import:completed" }

\* StateManager's constructor: no document, no subscriber
NewStateManager ==
  [state |-> NullState, listeners |-> [e \in AllEvents |-> <<>>], handles |-> <<>>]

\* No Facade call has run, none is suspended
FacadeIdle ==
  /\ stateManager = NewStateManager
  /\ trace = <<>>
  /\ pending = NoCall

\* What subscribers do when they are invoked: return; throw; unsubscribe
\* themselves through their handle; or, handed a document with autoReset on,
\* call stateManager.setState to turn it off
Callbacks == { "log", "throw", "once", "reenter" }

\* The record a Facade call starts from, the call noted on the trace
FacadeOf(st, sm, tr, call) ==
  [storage |-> st, state |-> sm.state, listeners |-> sm.listeners,
   handles |-> sm.handles, trace |-> Append(tr, call), depth |-> 0,
   result |-> "undefined"]

\* The Facade object a call leaves behind
ManagerOf(fs) == [state |-> fs.state, listeners |-> fs.listeners, handles |-> fs.handles]

\* callbacks.indexOf(callback), from 1; 0 when it is not there
IndexOfCallback(callbacks, callback) ==
  IF \E i \in 1..Len(callbacks) : callbacks[i].callback = callback
  THEN CHOOSE i \in 1..Len(callbacks) :
         /\ callbacks[i].callback = callback
         /\ \A j \in 1..(i - 1) : callbacks[j].callback # callback
  ELSE 0

\* StateManager.on(event, callback): the callback is pushed on the event's
\* array, and a handle closing over (event, callback) is returned.  reg
\* numbers the registration, and the handle is noted as not yet invoked; the
\* array itself holds the callback only.
On(fs, event, callback) ==
  LET reg == Len(fs.handles) + 1
  IN [fs EXCEPT !.listeners[event] = Append(@, [callback |-> callback, reg |-> reg]),
                !.handles = Append(@, [event |-> event, callback |-> callback,
                                       used |-> FALSE])]

\* StateManager.off(event, callback), and the body of a handle: the first
\* entry holding the callback is spliced out.  A handle knows its callback,
\* not its registration.
Off(fs, event, callback) ==
  LET index == IndexOfCallback(fs.listeners[event], callback)
  IN IF index > 0 THEN [fs EXCEPT !.listeners[event] = Splice1(@, index)] ELSE fs

\* The data of an emit that is given none
Undefined == [isUndefined |-> TRUE]

\* `{...a}` of a document, or of null
SpreadOf(doc) == IF IsNullState(doc) THEN EmptyObject ELSE doc

RECURSIVE Invoke(_, _, _, _, _)
RECURSIVE Deliver(_, _, _, _, _, _)
RECURSIVE Emit(_, _, _)
RECURSIVE FacadeSetState(_, _, _)

\* callback(data) inside emit's try: the invocation is noted with the document
\* stored and the document cached at that moment, then the subscriber acts.
\* What a subscriber throws is caught by emit.
Invoke(fs, entry, event, data, emitId) ==
  LET noted ==
        [fs EXCEPT !.trace =
           Append(@, [kind |-> "deliver", emit |-> emitId, event |-> event,
                      reg |-> entry.reg, callback |-> entry.callback,
                      data |-> data, cached |-> fs.state,
                      stored |-> GetState(fs.storage, "none")])]
  IN CASE entry.callback = "once" -> Off(noted, event, entry.callback)
       [] entry.callback = "reenter" ->
            IF /\ ~IsNullState(data)
               /\ "settings" \in DOMAIN data
               /\ data.settings.autoReset
            THEN LET inner == FacadeSetState(
                                [noted EXCEPT !.depth = @ + 1],
                                [settings |-> Spread(data.settings, [autoReset |-> FALSE])],
                                "none")
                 IN [inner EXCEPT !.depth = fs.depth]
            ELSE noted
       [] OTHER -> noted

\* Array.prototype.forEach over the live array of subscribers: indexes 1..len,
\* len the length when emit started, each read from the array as it is when
\* its turn comes
Deliver(fs, event, data, i, len, emitId) ==
  IF i > len THEN fs
  ELSE IF i > Len(fs.listeners[event])
       THEN Deliver(fs, event, data, i + 1, len, emitId)
       ELSE Deliver(Invoke(fs, fs.listeners[event][i], event, data, emitId),
                    event, data, i + 1, len, emitId)

\* StateManager.emit(event, data).  The trace notes the emit with the
\* registrations present when it starts.
Emit(fs, event, data) ==
  LET emitId == Len(fs.trace) + 1
      callbacks == fs.listeners[event]
      started ==
        [fs EXCEPT !.trace =
           Append(@, [kind |-> "emit", emit |-> emitId, event |-> event,
                      data |-> data, depth |-> fs.depth,
                      regs |-> [i \in 1..Len(callbacks) |-> callbacks[i].reg]])]
  IN Deliver(started, event, data, 1, Len(callbacks), emitId)

\* this.emit(EVENTS.STATE_CHANGED, this.state)
EmitStateChanged(fs) == Emit(fs, "state:changed", fs.state)

\* this.state = storageService.getState() after a Store call
Refreshed(fs, out, f) ==
  [fs EXCEPT !.storage = out.storage, !.state = GetState(out.storage, f)]

\* What a Store call that failed leaves of fs
NotRefreshed(fs, out) == [fs EXCEPT !.storage = out.storage]

\* return result
Return(fs, result) == [fs EXCEPT !.result = result]

\* StateManager.setState(updates)
FacadeSetState(fs, updates, f) ==
  LET state == Spread(SpreadOf(fs.state), updates)
      written == [fs EXCEPT !.state = state,
                            !.storage = SetState(fs.storage, state, f)]
  IN Return(EmitStateChanged(written), "undefined")

\* StateManager.updateSettings(updates)
FacadeUpdateSettings(fs, updates, f) ==
  IF IsNullState(fs.state) THEN Return(fs, "false")
  ELSE LET state == [fs.state EXCEPT !.settings = Spread(@, updates)]
           written == [fs EXCEPT !.state = state,
                                 !.storage = SetState(fs.storage, state, f)]
       IN Return(EmitStateChanged(written), "true")

\* StateManager.addSite(siteData)
FacadeAddSite(fs, siteData, newId, r, f) ==
  LET out == AddSite(fs.storage, siteData, newId, r, f)
      added == Emit(Refreshed(fs, out, f), "site:added", [newSite |-> out.result])
  IN Return(EmitStateChanged(added), out.result)

\* StateManager.updateSite(id, updates)
FacadeUpdateSite(fs, id, updates, t, f) ==
  LET out == UpdateSite(fs.storage, id, updates, t, f)
  IN IF out.result = "true"
     THEN Return(EmitStateChanged(
                   Emit(Refreshed(fs, out, f), "site:updated",
                        [id |-> id, updates |-> updates])), "true")
     ELSE Return(NotRefreshed(fs, out), "false")

\* StateManager.deleteSite(id)
FacadeDeleteSite(fs, id, f) ==
  LET out == DeleteSite(fs.storage, id, f)
  IN IF out.result = "true"
     THEN Return(EmitStateChanged(
                   Emit(Refreshed(fs, out, f), "site:deleted", [id |-> id])), "true")
     ELSE Return(NotRefreshed(fs, out), "false")

\* StateManager.checkInCredential(siteId, credentialId)
FacadeCheckInCredential(fs, siteId, credentialId, r, f) ==
  LET out == CheckInCredential(fs.storage, siteId, credentialId, r, f)
  IN IF out.result = "true"
     THEN Return(EmitStateChanged(
                   Emit(Refreshed(fs, out, f), "credential:checked",
                        [siteId |-> siteId, credentialId |-> credentialId])), "true")
     ELSE Return(NotRefreshed(fs, out), "false")

\* StateManager.resetCredential(siteId, credentialId)
FacadeResetCredential(fs, siteId, credentialId, f) ==
  LET out == ResetCredential(fs.storage, siteId, credentialId, f)
  IN IF out.result = "true"
     THEN Return(EmitStateChanged(Refreshed(fs, out, f)), "true")
     ELSE Return(NotRefreshed(fs, out), "false")

\* StateManager.resetAllCredentials()
FacadeResetAllCredentials(fs, t, f) ==
  LET out == ResetAllCredentials(fs.storage, t, f)
  IN IF out.result = "true"
     THEN Return(EmitStateChanged(Refreshed(fs, out, f)), "true")
     ELSE Return(NotRefreshed(fs, out), "false")

\* StateManager.addCategory(categoryData)
FacadeAddCategory(fs, categoryData, newId, f) ==
  LET out == AddCategory(fs.storage, categoryData, newId, f)
  IN Return(EmitStateChanged(Refreshed(fs, out, f)), out.result)

\* StateManager.clearAllData(), as far as it runs before it returns: the item
\* is removed, the cache dropped, and init() started without being awaited.
\* init() runs storageService.init() up to its first await, which is past the
\* bootstrap of the default document when nothing is stored.
FacadeClearAllData(fs, r, f) ==
  LET cleared == ClearAllData(fs.storage, f)
      existingData == GetState(cleared, f)
      started == IF IsNullState(existingData)
                 THEN InitializeDefaultState(cleared, r[1], f)
                 ELSE CheckDailyReset(cleared, r[1], r[2], f)
  IN Return([fs EXCEPT !.storage = started, !.state = NullState], "undefined")

\* The rest of StateManager.init() once its awaits are through: the daily
\* reset if the bootstrap was awaited, the document re-read (or made again by
\* initializeDefaultState when there is none to read), STATE_CHANGED emitted
FacadeInitResumed(fs, bootstrapped, r, f) ==
  LET checked == IF bootstrapped THEN CheckDailyReset(fs.storage, r[1], r[2], f)
                 ELSE fs.storage
      state == GetState(checked, f)
      ready == IF IsNullState(state)
               THEN [fs EXCEPT !.storage = InitializeDefaultState(checked, r[2], f),
                               !.state = DefaultState(r[2])]
               ELSE [fs EXCEPT !.storage = checked, !.state = state]
  IN Return(EmitStateChanged(ready), "undefined")

\* StorageService.importData up to the point where it suspends or returns:
\* an envelope given with a password is sent to decrypt and the call waits,
\* before the stored document has been read; anything else is imported at
\* once
StoreImportStarted(st, input, password, f) ==
  IF IsEncrypted(input, password)
  THEN [storage |-> st, result |-> "awaiting"]
  ELSE ImportData(st, input, f)

\* StorageService.importData from the moment decrypt settles: the stored
\* document is read now, and the payload merged into it
StoreImportResumed(st, input, password, f) ==
  IF Decrypts(input.data, password)
  THEN ImportData(st, JsonStringify(Decrypt(input.data, password)), f)
  ELSE [storage |-> st, result |-> "false"]

\* StateManager.importData after `await storageService.importData(...)`
FacadeImportSettled(fs, out, f) ==
  IF out.result = "true"
  THEN Return(EmitStateChanged(
                Emit(Refreshed(fs, out, f), "import:completed", Undefined)),
              "true")
  ELSE Return(NotRefreshed(fs, out), "false")

\* The status and category filters of StateManager.getFilteredSites over the
\* cached document, search and tags left empty; category null filters nothing
GetFilteredSites(state, status, category, t) ==
  LET sites == IF IsNullState(state) THEN <<>> ELSE OrDefault(state, "sites", <<>>)
      hasCheckedIn(site) ==
        \E j \in 1..Len(site.credentials) :
          /\ ~IsNull(site.credentials[j].checkedInOn)
          /\ isToday(Val(site.credentials[j].checkedInOn), t)
      byStatus == IF status = "all" THEN sites
                  ELSE SelectSeq(sites,
                         LAMBDA site : IF status = "done" THEN hasCheckedIn(site)
                                       ELSE ~hasCheckedIn(site))
  IN IF category = "" THEN byStatus
     ELSE SelectSeq(byStatus, LAMBDA site : OrDefault(site, "category", "") = category)

\* SitesService.isSiteCompleteToday(site)
isSiteCompleteToday(site, t) ==
  IF "credentials" \notin DOMAIN site \/ Len(site.credentials) = 0 THEN FALSE
  ELSE \A j \in 1..Len(site.credentials) :
         /\ ~IsNull(site.credentials[j].checkedInOn)
         /\ isToday(Val(site.credentials[j].checkedInOn), t)

----------------------------------------------------------------------------
(* Inputs *)

SiteDatas ==
  { [name |-> "a", credentials |-> <<NewCredential("c1")>>] }

SiteUpdates ==
  { [name |-> "b"] }

StateUpdates == { [settings |-> [autoReset |-> b]] : b \in BOOLEAN }

ImportedSite ==
  [id |-> "s1", name |-> "imported", createdAt |-> 0, updatedAt |-> 0,
   credentials |-> <<[id |-> "c1", checkedInOn |-> Ts(0),
                      checkInHistory |-> <<[timestamp |-> 0, device |-> DeviceInfo]>>]>>]

ImportInputs ==
  { [parse |-> "garbage"],
    [parse |-> "json", data |-> [exportedAt |-> 0]],
    [parse |-> "json", data |-> [version |-> <<1, 0, 0>>, sites |-> <<ImportedSite>>]] }

CategoryDatas ==
  { [name |-> "Custom"] }

\* Identifiers generateId() returns for new categories
CategoryIds == { Len(DefaultCategoryNames) + 1 }

\* The most categories a document of the model holds
MaxCategories == Len(DefaultCategoryNames) + Cardinality(CategoryIds)

----------------------------------------------------------------------------
(* The calls *)

\* The document a fault-free read sees, for the guards that bound the counters
Doc == GetState(storage, "none")

HasDoc == ~IsNullState(Doc)

CallInit ==
  \E f \in Faults, r \in ClockReads(3) :
    /\ storage' = StorageInit(storage, r, f)
    /\ now' = r[3]
    /\ UNCHANGED migratorVars

CallCheckDailyReset ==
  \E f \in Faults, r \in ClockReads(2) :
    /\ storage' = CheckDailyReset(storage, r[1], r[2], f)
    /\ now' = r[2]
    /\ UNCHANGED migratorVars

CallResetAllCredentials ==
  \E f \in Faults :
    LET out == ResetAllCredentials(storage, now, f)
    IN /\ storage' = out.storage
       /\ now' = now
       /\ UNCHANGED migratorVars

CallCheckInCredential ==
  \E f \in Faults, siteId \in SiteIdArgs, credentialId \in CredIds, r \in ClockReads(3) :
    LET out == CheckInCredential(storage, siteId, credentialId, r, f)
    IN /\ HasDoc => Doc.analytics.totalCheckIns < MaxCheckIns
       /\ storage' = out.storage
       /\ now' = r[3]
       /\ UNCHANGED migratorVars

CallResetCredential ==
  \E f \in Faults, siteId \in SiteIdArgs, credentialId \in CredIds :
    LET out == ResetCredential(storage, siteId, credentialId, f)
    IN /\ storage' = out.storage
       /\ now' = now
       /\ UNCHANGED migratorVars

CallToggleCheckIn ==
  \E f \in Faults, siteId \in SiteIdArgs, credentialId \in CredIds, r \in ClockReads(4) :
    LET out == ToggleCheckIn(storage, siteId, credentialId, r, f)
    IN /\ HasDoc => Doc.analytics.totalCheckIns < MaxCheckIns
       /\ storage' = out.storage
       /\ now' = r[4]
       /\ UNCHANGED migratorVars

CallAddSite ==
  \E f \in Faults, siteData \in SiteDatas, newId \in SiteIds, r \in ClockReads(2) :
    LET out == AddSite(storage, siteData, newId, r, f)
    IN /\ HasDoc => /\ Doc.analytics.sitesAdded < MaxSitesAdded
                    /\ Len(Doc.sites) < MaxSites
                    /\ \A i \in 1..Len(Doc.sites) : Doc.sites[i].id # newId
       /\ storage' = out.storage
       /\ now' = r[2]
       /\ UNCHANGED migratorVars

CallUpdateSite ==
  \E f \in Faults, id \in SiteIdArgs, updates \in SiteUpdates :
    LET out == UpdateSite(storage, id, updates, now, f)
    IN /\ storage' = out.storage
       /\ now' = now
       /\ UNCHANGED migratorVars

CallDeleteSite ==
  \E f \in Faults, id \in SiteIdArgs :
    LET out == DeleteSite(storage, id, f)
    IN /\ HasDoc => Doc.analytics.sitesArchived < MaxSitesAdded
       /\ storage' = out.storage
       /\ now' = now
       /\ UNCHANGED migratorVars

CallUpdateState ==
  \E f \in Faults, updates \in StateUpdates :
    LET out == UpdateState(storage, updates, f)
    IN /\ storage' = out.storage
       /\ now' = now
       /\ UNCHANGED migratorVars

CallAddCategory ==
  \E f \in Faults, categoryData \in CategoryDatas, newId \in CategoryIds :
    LET out == AddCategory(storage, categoryData, newId, f)
    IN /\ HasDoc => Len(Doc.categories) < MaxCategories
       /\ storage' = out.storage
       /\ now' = now
       /\ UNCHANGED migratorVars

CallImportData ==
  \E f \in Faults, input \in ImportInputs :
    LET out == ImportData(storage, input, f)
    IN /\ (HasDoc /\ input.parse = "json" /\ "sites" \in DOMAIN input.data)
            => Len(Doc.sites) + Len(input.data.sites) <= MaxSites
       /\ storage' = out.storage
       /\ now' = now
       /\ UNCHANGED migratorVars

CallClearAllData ==
  \E f \in Faults :
    /\ storage' = ClearAllData(storage, f)
    /\ now' = now
    /\ UNCHANGED migratorVars

\* Time passes between calls
Tick ==
  /\ now < MaxTime
  /\ now' = now + 1
  /\ UNCHANGED migratorVars
  /\ storage' = storage

Init ==
  /\ storage = NoItem
  /\ now = 0
  /\ backups = <<>>
  /\ migratedData = NotMigrated
  /\ returned = NoCall
  /\ FacadeIdle

Next ==
  \/ CallInit
  \/ CallCheckDailyReset
  \/ CallResetAllCredentials
  \/ CallCheckInCredential
  \/ CallResetCredential
  \/ CallAddSite
  \/ CallUpdateSite
  \/ CallDeleteSite
  \/ CallUpdateState
  \/ CallImportData
  \/ CallClearAllData
  \/ Tick

Spec == Init /\ [][Next]_vars

----------------------------------------------------------------------------
(* A browser that already holds an item from an earlier session: a document,
   or a string that is not JSON, or (a first visit) nothing *)

\* n check-ins on the n days before the session, one a day, the latest first
PastHistory(n) ==
  [i \in 1..n |-> [timestamp |-> 0 - 1 - (i - 1) * DayLen, device |-> DeviceInfo]]

StoredSite(id, credentials) ==
  [id |-> id, name |-> "a", createdAt |-> 0 - 4, updatedAt |-> 0 - 4, credentials |-> credentials]

\* Two sites of two credentials, checked in yesterday and the day before
TwoSiteDoc(autoReset, lastReset) ==
  [version |-> CurrentVersion,
   lastReset |-> lastReset,
   settings |-> [autoReset |-> autoReset],
   categories |-> DefaultCategories,
   sites |-> << StoredSite("s1", << [id |-> "c1", checkedInOn |-> Ts(0 - 1),
                                     checkInHistory |-> PastHistory(1)],
                                    NewCredential("c2") >>),
                StoredSite("s2", << [id |-> "c1", checkedInOn |-> Ts(0 - 1 - DayLen),
                                     checkInHistory |-> <<[timestamp |-> 0 - 1 - DayLen,
                                                           device |-> DeviceInfo]>>] >>) >>,
   analytics |-> [ZeroAnalytics EXCEPT !.sitesAdded = 2]]

\* One credential whose history is n entries long
HistoryDoc(n) ==
  [version |-> CurrentVersion,
   lastReset |-> 0,
   settings |-> [autoReset |-> TRUE],
   categories |-> DefaultCategories,
   sites |-> << StoredSite("s1", << [id |-> "c1", checkedInOn |-> Ts(0 - 1),
                                     checkInHistory |-> PastHistory(n)] >>) >>,
   analytics |-> [ZeroAnalytics EXCEPT !.sitesAdded = 1]]

\* A document written by release 2.0.0
StaleDoc ==
  [DefaultState(0 - 1) EXCEPT !.version = <<2, 0, 0>>]

StoredDocs ==
  { TwoSiteDoc(a, 0 - 1) : a \in BOOLEAN }
    \cup { HistoryDoc(n) : n \in {maxHistoryEntries - 1, maxHistoryEntries} }
    \cup { StaleDoc }

InitStored ==
  /\ storage \in { Stored(d) : d \in StoredDocs } \cup { NoItem, CorruptItem }
  /\ now = 0
  /\ backups = <<>>
  /\ migratedData = NotMigrated
  /\ returned = NoCall
  /\ FacadeIdle

\* The daily life of a stored document: start-up, check-ins, resets, settings,
\* categories
NextStored ==
  \/ CallInit
  \/ CallCheckDailyReset
  \/ CallResetAllCredentials
  \/ CallCheckInCredential
  \/ CallResetCredential
  \/ CallToggleCheckIn
  \/ CallUpdateState
  \/ CallAddCategory
  \/ Tick

SpecStored == InitStored /\ [][NextStored]_vars

----------------------------------------------------------------------------
(* The Schema Migrator at work on what earlier releases left in storage *)

\* A site as the first releases stored it: no favicon, priority, colour or
\* metadata, credentials without history
LegacySite ==
  [id |-> "s1", name |-> "a", url |-> "https://a.example", createdAt |-> 0 - 4,
   credentials |-> <<[id |-> "c1", email |-> "e", checkedInOn |-> Null]>>]

\* A site holding no credentials property at all
BareSite == [id |-> "s2", name |-> "b"]

LegacyAnalytics ==
  [totalCheckIns |-> 3, currentStreak |-> 1, longestStreak |-> 2, averageDaily |-> 0,
   sitesAdded |-> 2, sitesArchived |-> 0]

\* What a stored document may hold besides its version: everything, or with
\* analytics, settings, or sites and categories missing, or nothing
LegacyBodies ==
  LET full == [lastReset |-> 0 - 1,
               settings |-> [autoReset |-> FALSE],
               categories |-> DefaultCategories,
               sites |-> <<LegacySite, BareSite>>,
               analytics |-> LegacyAnalytics]
      Without(keys) == [k \in (DOMAIN full) \ keys |-> full[k]]
  IN { full,
       Without({"analytics"}),
       Without({"settings"}),
       Without({"sites", "categories"}),
       Without({"sites", "categories", "settings", "analytics"}),
       EmptyObject }

\* The versions earlier releases wrote, the current one, and a later one
StoredVersions ==
  { <<0, 9>>, <<1, 0, 0>>, <<1, 5, 0>>, <<2, 0, 0>>, CurrentVersion, <<2, 2, 0>> }

MigrationInputs ==
  LegacyBodies \cup { Spread(body, [version |-> v]) : body \in LegacyBodies, v \in StoredVersions }

InitMigrate ==
  /\ storage \in { Stored(d) : d \in MigrationInputs } \cup { NoItem }
  /\ now = 0
  /\ backups = <<>>
  /\ migratedData = NotMigrated
  /\ returned = NoCall
  /\ FacadeIdle

\* migrationService.migrate(storageService.getState())
CallMigrate ==
  /\ migratedData' = [called |-> TRUE, data |-> migrate(Doc, now)]
  /\ UNCHANGED <<storage, now, backups, returned, facadeVars>>

\* The backups taken since the start (those of earlier sessions are dated
\* before it)
BackupsTaken == Cardinality({ k \in 1..Len(backups) : backups[k].timestamp >= 0 })

\* The indexes restoreBackup is called with: every slot, and one past the last
BackupIndexes == 0..maxBackups

\* migrationService.createBackup(storageService.getState()); it throws on null
CallCreateBackup ==
  \E f \in Faults :
    /\ HasDoc
    /\ BackupsTaken < MaxBackupCalls
    /\ backups' = CreateBackup(backups, Doc, now, f)
    /\ UNCHANGED <<storage, now, migratedData, returned, facadeVars>>

\* migrationService.restoreBackup(index)
CallRestoreBackup ==
  \E f \in Faults, index \in BackupIndexes :
    /\ returned' = [op |-> "restoreBackup", index |-> index,
                    value |-> RestoreBackup(backups, index, f)]
    /\ UNCHANGED <<storage, now, backups, migratedData, facadeVars>>

NextMigrate ==
  \/ CallMigrate
  \/ CallCreateBackup
  \/ Tick

SpecMigrate == InitMigrate /\ [][NextMigrate]_vars

----------------------------------------------------------------------------
(* The backup buffer, as earlier sessions left it and as this one fills it *)

\* A document an earlier session backed up
BackedUpDoc == [version |-> <<0, 9>>, sites |-> <<>>]

\* A buffer of n backups taken on the n days before the start, newest first
PastBackups(n) ==
  [i \in 1..n |-> [data |-> BackedUpDoc, timestamp |-> 0 - i * DayLen,
                   version |-> BackedUpDoc.version]]

\* Documents to back up: one without a version, an old one, a current one
BackupDocs ==
  { [sites |-> <<BareSite>>],
    [version |-> <<1, 0, 0>>, sites |-> <<LegacySite>>],
    DefaultState(0) }

InitBackup ==
  /\ storage \in { Stored(d) : d \in BackupDocs }
  /\ now = 0
  /\ backups \in { <<>>, PastBackups(maxBackups - 1), PastBackups(maxBackups) }
  /\ migratedData = NotMigrated
  /\ returned = NoCall
  /\ FacadeIdle

NextBackup ==
  \/ CallCreateBackup
  \/ CallRestoreBackup
  \/ Tick

SpecBackup == InitBackup /\ [][NextBackup]_vars

----------------------------------------------------------------------------
(* Streak claims *)

Analytics == Doc.analytics

\* A step in which a checkInCredential call succeeded and was persisted
CheckedIn ==
  /\ HasDoc
  /\ HasDoc'
  /\ Analytics'.totalCheckIns = Analytics.totalCheckIns + 1

\* C1: when the lastCheckIn stored before the call has yesterday's calendar date,
\* a successful checkInCredential increments currentStreak by exactly 1.
C1_YesterdayIncrements ==
  [][ (CheckedIn
         /\ ~IsNull(Analytics.lastCheckIn)
         /\ UtcDate(Val(Analytics.lastCheckIn)) = UtcDate(now) - 1)
      => Analytics'.currentStreak = Analytics.currentStreak + 1 ]_vars

\* C2: with no prior lastCheckIn, the first successful checkInCredential sets
\* currentStreak to 1.
C2_FirstCheckInStartsStreak ==
  [][ (CheckedIn /\ IsNull(Analytics.lastCheckIn))
      => Analytics'.currentStreak = 1 ]_vars

\* C3: when the prior lastCheckIn's calendar date is neither today nor yesterday,
\* a successful checkInCredential resets currentStreak to 1.
C3_GapResetsStreak ==
  [][ (CheckedIn
         /\ ~IsNull(Analytics.lastCheckIn)
         /\ UtcDate(Val(Analytics.lastCheckIn)) < UtcDate(now) - 1)
      => Analytics'.currentStreak = 1 ]_vars

\* C4: in every state reachable from the bootstrapped default document,
\* currentStreak <= longestStreak.
C4_StreakInvariant ==
  HasDoc => Analytics.currentStreak <= Analytics.longestStreak

\* A streak has been counted (and the longest streak has followed it)
C4_Witness ==
  /\ HasDoc
  /\ Analytics.currentStreak >= 1
  /\ Analytics.longestStreak >= Analytics.currentStreak

----------------------------------------------------------------------------
(* Start-up, write failures, daily reset *)

\* C5: init() on a stored document whose version is lower than the current one
\* leaves a document in storage that is no longer stale.
C5_InitMigratesStale ==
  [][ \A r \in ClockReads(3) :
        (HasDoc /\ needsMigration(Doc)
           /\ storage' = StorageInit(storage, r, "none") /\ now' = r[3])
        => ~needsMigration(Doc') ]_vars

WriteFaults == Faults \ {"none"}

Failure == {"false", "null"}

\* C6: when the localStorage write fails, setState returns false and every
\* mutating operation built on it reports failure to its caller.
C6_WriteFailureReported ==
  HasDoc =>
    \A f \in WriteFaults :
      /\ ~SetStateResult(Doc, f)
      /\ \A siteData \in SiteDatas, newId \in SiteIdArgs, r \in ClockReads(2) :
           AddSite(storage, siteData, newId, r, f).result \in Failure
      /\ \A id \in SiteIdArgs, updates \in SiteUpdates :
           UpdateSite(storage, id, updates, now, f).result \in Failure
      /\ \A id \in SiteIdArgs :
           DeleteSite(storage, id, f).result \in Failure
      /\ \A siteId \in SiteIdArgs, credentialId \in CredIds :
           /\ \A r \in ClockReads(3) :
                CheckInCredential(storage, siteId, credentialId, r, f).result \in Failure
           /\ ResetCredential(storage, siteId, credentialId, f).result \in Failure
      /\ \A input \in ImportInputs :
           ImportData(storage, input, f).result \in Failure

\* Every credential of every site of a document is not checked in
NoneCheckedIn(doc) ==
  \A i \in 1..Len(doc.sites) :
    \A j \in 1..Len(doc.sites[i].credentials) :
      IsNull(doc.sites[i].credentials[j].checkedInOn)

SomeCheckedIn(doc) == ~NoneCheckedIn(doc)

\* C7: checkDailyReset() clears every credential's checkedInOn and sets lastReset
\* to the date it reads from the clock exactly when settings.autoReset is true and
\* lastReset differs from today's date; otherwise the stored document is unchanged.
\* (The storage write succeeding; today is the UTC date, as the code computes it.)
C7_DailyReset ==
  HasDoc =>
    \A r \in ClockReads(2) :
      LET after == CheckDailyReset(storage, r[1], r[2], "none")
          due == Doc.settings.autoReset /\ Doc.lastReset # UtcDate(r[1])
      IN IF due
         THEN /\ after.item = "json"
              /\ NoneCheckedIn(after.doc)
              /\ after.doc.lastReset = UtcDate(r[2])
              /\ after.doc = [Doc EXCEPT !.sites = after.doc.sites,
                                         !.lastReset = after.doc.lastReset]
              /\ Len(after.doc.sites) = Len(Doc.sites)
         ELSE after = storage

\* A credential has a check-in on record
EverCheckedIn(doc) ==
  \E i \in 1..Len(doc.sites) :
    \E j \in 1..Len(doc.sites[i].credentials) :
      Len(doc.sites[i].credentials[j].checkInHistory) > 0

\* A new day's reset has cleared the credentials of two sites, and the reset is
\* not due again
C7_Witness ==
  /\ HasDoc
  /\ Doc.settings.autoReset
  /\ now >= DayLen
  /\ Doc.lastReset = UtcDate(now)
  /\ Len(Doc.sites) >= 2
  /\ EverCheckedIn(Doc)
  /\ NoneCheckedIn(Doc)

\* C8: "today" is the user's local calendar date: for every timezone offset, a
\* credential checked in at T counts as checked in today exactly when the local
\* date of T equals the current local date.
C8_TodayIsLocalDate ==
  HasDoc =>
    \A off \in TzOffsets :
      \A i \in 1..Len(Doc.sites) :
        \A j \in 1..Len(Doc.sites[i].credentials) :
          LET checkedInOn == Doc.sites[i].credentials[j].checkedInOn
          IN ~IsNull(checkedInOn)
               => (isToday(Val(checkedInOn), now)
                     <=> LocalDate(Val(checkedInOn), off) = LocalDate(now, off))

----------------------------------------------------------------------------
(* Check-in history, unknown identifiers *)

History(doc, i, j) == doc.sites[i].credentials[j].checkInHistory

\* Every history is within the cap and ordered most recent first
HistoriesCappedAndOrdered ==
  HasDoc =>
    \A i \in 1..Len(Doc.sites) :
      \A j \in 1..Len(Doc.sites[i].credentials) :
        LET h == History(Doc, i, j)
        IN /\ Len(h) <= maxHistoryEntries
           /\ \A k \in 1..(Len(h) - 1) : h[k].timestamp >= h[k + 1].timestamp

\* A successful check-in puts its entry first in one credential's history, keeps
\* the entries that were there in their order, and drops the oldest when the cap
\* is exceeded; every other history is left alone
NewestKeptOldestEvicted ==
  CheckedIn =>
    /\ Len(Doc'.sites) = Len(Doc.sites)
    /\ \E i \in 1..Len(Doc.sites) :
         /\ Len(Doc'.sites[i].credentials) = Len(Doc.sites[i].credentials)
         /\ \E j \in 1..Len(Doc.sites[i].credentials) :
              LET h == History(Doc, i, j)
                  hNew == History(Doc', i, j)
              IN /\ Len(hNew) >= 1
                 /\ hNew[1].timestamp \in now..now'
                 /\ Tail(hNew) = IF Len(h) < maxHistoryEntries THEN h
                                 ELSE SubSeq(h, 1, maxHistoryEntries - 1)
                 /\ \A i2 \in 1..Len(Doc.sites) :
                      \A j2 \in 1..Len(Doc.sites[i2].credentials) :
                        <<i2, j2>> # <<i, j>> => History(Doc', i2, j2) = History(Doc, i2, j2)

\* C9: a credential's checkInHistory has at most maxHistoryEntries entries, is
\* ordered most recent first, and after each successful check-in consists of that
\* check-in followed by the most recent earlier ones (the oldest is evicted).
C9_HistoryCap ==
  /\ []HistoriesCappedAndOrdered
  /\ [][NewestKeptOldestEvicted]_vars

\* A history one short of the cap, or at it, has taken two new check-ins and
\* lost its oldest entry
C9_Witness ==
  /\ HasDoc
  /\ \E i \in 1..Len(Doc.sites) :
       \E j \in 1..Len(Doc.sites[i].credentials) :
         LET h == History(Doc, i, j)
         IN /\ Len(h) = maxHistoryEntries
            /\ h[2].timestamp >= 0
            /\ h[3].timestamp < 0

\* No site with this id holds a credential with this id
NotFound(st, siteId, credentialId) ==
  LET state == GetState(st, "none")
  IN IsNullState(state)
       \/ ~ \E i \in 1..Len(state.sites) :
              /\ state.sites[i].id = siteId
              /\ \E j \in 1..Len(state.sites[i].credentials) :
                   state.sites[i].credentials[j].id = credentialId

\* C10: checkInCredential with a siteId that is not in sites, or a credentialId
\* that is not in that site's credentials, returns false and leaves the stored
\* document unchanged.
C10_UnknownIdsRejected ==
  \A siteId \in SiteIdArgs, credentialId \in CredIds, f \in Faults, r \in ClockReads(3) :
    NotFound(storage, siteId, credentialId)
      => LET out == CheckInCredential(storage, siteId, credentialId, r, f)
         IN /\ out.result = "false"
            /\ out.storage = storage

\* A site holds c1, which has been checked in, and no c2
C10_Witness ==
  /\ HasDoc
  /\ Analytics.totalCheckIns >= 1
  /\ ~NotFound(storage, "s1", "c1")
  /\ NotFound(storage, "s1", "c2")
  /\ NotFound(storage, "s2", "c1")

----------------------------------------------------------------------------
(* Check-in counters, resets, once a day *)

\* The credential a call names, in a document that holds it
CredentialOf(doc, siteId, credentialId) ==
  LET si == FindIndex(doc.sites, siteId)
  IN doc.sites[si].credentials[FindIndex(doc.sites[si].credentials, credentialId)]

\* Every checkInCredential call that returns true leaves a document whose
\* totalCheckIns is one more than before and whose lastCheckIn is the timestamp
\* the call wrote to the credential's checkedInOn
TrueCheckInsCounted ==
  HasDoc =>
    \A f \in Faults, siteId \in SiteIdArgs, credentialId \in CredIds, r \in ClockReads(3) :
      LET out == CheckInCredential(storage, siteId, credentialId, r, f)
          after == GetState(out.storage, "none")
      IN out.result = "true" =>
           /\ ~IsNullState(after)
           /\ after.analytics.totalCheckIns = Analytics.totalCheckIns + 1
           /\ after.analytics.lastCheckIn = Ts(r[1])
           /\ CredentialOf(after, siteId, credentialId).checkedInOn = Ts(r[1])

\* No operation moves the counter except by one, together with lastCheckIn
CountMovesWithCheckIns ==
  (HasDoc /\ HasDoc') =>
    \/ /\ Analytics'.totalCheckIns = Analytics.totalCheckIns
       /\ Analytics'.lastCheckIn = Analytics.lastCheckIn
    \/ /\ Analytics'.totalCheckIns = Analytics.totalCheckIns + 1
       /\ \E t \in now..now' : Analytics'.lastCheckIn = Ts(t)

\* C11: from the bootstrapped default document (totalCheckIns 0, lastCheckIn
\* null), totalCheckIns is the number of checkInCredential calls that returned
\* true and lastCheckIn is the timestamp the most recent of them wrote to
\* checkedInOn: each such call adds one and sets lastCheckIn, nothing else moves them.
C11_CheckInsCounted ==
  /\ []TrueCheckInsCounted
  /\ [][CountMovesWithCheckIns]_vars

\* `after` is `before` with nothing changed but credentials' checkedInOn
OnlyCheckedInOnChanged(before, after) ==
  /\ ~IsNullState(after)
  /\ after.analytics = before.analytics
  /\ Len(after.sites) = Len(before.sites)
  /\ \A i \in 1..Len(before.sites) :
       /\ [after.sites[i] EXCEPT !.credentials = before.sites[i].credentials] = before.sites[i]
       /\ Len(after.sites[i].credentials) = Len(before.sites[i].credentials)
       /\ \A j \in 1..Len(before.sites[i].credentials) :
            /\ History(after, i, j) = History(before, i, j)
            /\ [after.sites[i].credentials[j] EXCEPT
                  !.checkedInOn = before.sites[i].credentials[j].checkedInOn]
                 = before.sites[i].credentials[j]
  /\ [after EXCEPT !.sites = before.sites] = before

\* C12: resetCredential and resetAllCredentials change only checkedInOn (and,
\* for resetAllCredentials, lastReset): every checkInHistory and every analytics
\* counter is the same before and after the call.
C12_ResetFrame ==
  HasDoc =>
    \A f \in Faults :
      /\ \A siteId \in SiteIdArgs, credentialId \in CredIds :
           OnlyCheckedInOnChanged(Doc,
             GetState(ResetCredential(storage, siteId, credentialId, f).storage, "none"))
      /\ \A t \in now..Min(now + MaxDrift, MaxTime) :
           LET after == GetState(ResetAllCredentials(storage, t, f).storage, "none")
           IN /\ ~IsNullState(after)
              /\ OnlyCheckedInOnChanged(Doc, [after EXCEPT !.lastReset = Doc.lastReset])

\* Of two sites' credentials one was checked in today, and all have been reset:
\* the histories and the counters are still there
C12_Witness ==
  /\ HasDoc
  /\ Len(Doc.sites) >= 2
  /\ Analytics.totalCheckIns >= 1
  /\ ~IsNull(Analytics.lastCheckIn)
  /\ UtcDate(Val(Analytics.lastCheckIn)) = UtcDate(now)
  /\ EverCheckedIn(Doc)
  /\ NoneCheckedIn(Doc)

\* C13: each credential is checked in at most once per calendar day: whatever
\* check-ins, resets and toggles happen, no credential's checkInHistory holds two
\* entries of the same day.
C13_OncePerDay ==
  HasDoc =>
    \A i \in 1..Len(Doc.sites) :
      \A j \in 1..Len(Doc.sites[i].credentials) :
        LET h == History(Doc, i, j)
        IN \A k1, k2 \in 1..Len(h) :
             k1 < k2 => UtcDate(h[k1].timestamp) # UtcDate(h[k2].timestamp)

----------------------------------------------------------------------------
(* Bootstrap, version *)

\* C15: init() with no stored item, or with an item that is not parseable JSON,
\* bootstraps and persists a default document: current version, no sites, the
\* default categories, all analytics counters zero and lastCheckIn null.
C15_InitBootstraps ==
  ~HasDoc =>
    \A r \in ClockReads(3) :
      LET after == StorageInit(storage, r, "none")
      IN /\ after.item = "json"
         /\ after.doc.version = CurrentVersion
         /\ after.doc.sites = <<>>
         /\ after.doc.categories = DefaultCategories
         /\ after.doc.analytics = ZeroAnalytics
         /\ IsNull(after.doc.analytics.lastCheckIn)

\* init() has bootstrapped a document
C15_Witness ==
  /\ HasDoc
  /\ Doc.version = CurrentVersion
  /\ Doc.sites = <<>>
  /\ Doc.categories = DefaultCategories
  /\ Doc.analytics = ZeroAnalytics

\* No write of a step lowers the version
VersionKept ==
  (storage' # storage /\ HasDoc /\ HasDoc')
    => compareVersions(Doc'.version, Doc.version) >= 0

\* addCategory, called on the stored document, does not lower the version
AddCategoryKeepsVersion ==
  HasDoc =>
    \A f \in Faults, categoryData \in CategoryDatas, newId \in CategoryIds :
      LET after == GetState(AddCategory(storage, categoryData, newId, f).storage, "none")
      IN /\ ~IsNullState(after)
         /\ compareVersions(after.version, Doc.version) >= 0

\* C16: across every Persistence Store write (init, site CRUD, check-ins, resets,
\* addCategory, importData of a document carrying an older version) the stored
\* document's version never decreases under numeric version comparison.
C16_VersionMonotone ==
  /\ [][VersionKept]_vars
  /\ []AddCategoryKeepsVersion

\* A file exported by release 1.0.0 has been imported into a document of the
\* current version, and a credential checked in
C16_Witness ==
  /\ HasDoc
  /\ \E i \in 1..Len(Doc.sites) : Doc.sites[i].name = "imported"
  /\ Analytics.totalCheckIns >= 1
  /\ Doc.version = CurrentVersion

----------------------------------------------------------------------------
(* Schema Migrator claims.  Under SpecMigrate the stored document never
   changes, so Doc is the document the last migrate call was given. *)

\* C17: for every document whose version is at most the current one (or that
\* has none), migrate returns a document whose version is CONFIG.app.version
\* and that needs no migration.
C17_MigrateReachesCurrent ==
  (migratedData.called /\ HasDoc /\ compareVersions(DataVersion(Doc), CurrentVersion) <= 0)
    => /\ "version" \in DOMAIN migratedData.data
       /\ migratedData.data.version = CurrentVersion
       /\ ~needsMigration(migratedData.data)

\* C18: migrate(migrate(D)) = migrate(D) for every document D (any version, or
\* none, or null), the clock held fixed; and migrating what migrate returned
\* changes nothing.
C18_MigrateIdempotent ==
  /\ \A t \in 0..MaxTime : migrate(migrate(Doc, t), t) = migrate(Doc, t)
  /\ migratedData.called =>
       \A t \in 0..MaxTime : migrate(migratedData.data, t) = migratedData.data

\* migrate has been applied to a document of an old release and has changed it
C18_Witness ==
  /\ migratedData.called
  /\ AppliesMigration(Doc)
  /\ migratedData.data # Doc
  /\ "sites" \in DOMAIN Doc
  /\ Len(Doc.sites) >= 2

SettingsKeys == DOMAIN MigratedSettings(EmptyObject)

AnalyticsFields == DOMAIN ZeroAnalytics

\* sites and categories are there, settings holds every default key, every site
\* has credentials, analytics holds every schema field
StructurallyComplete(doc) ==
  /\ {"sites", "categories", "settings", "analytics"} \subseteq DOMAIN doc
  /\ SettingsKeys \subseteq DOMAIN doc.settings
  /\ \A i \in 1..Len(doc.sites) : "credentials" \in DOMAIN doc.sites[i]
  /\ AnalyticsFields \subseteq DOMAIN doc.analytics

\* C19: for every input document, however incomplete, migrate returns a
\* structurally complete document.
C19_MigrateCompletes ==
  (migratedData.called /\ HasDoc) => StructurallyComplete(migratedData.data)

\* C20: whenever migrate has applied a migration to a document, the backup buffer
\* holds a snapshot of that document tagged with its original version.
C20_BackupBeforeMigration ==
  (migratedData.called /\ AppliesMigration(Doc))
    => \E k \in 1..Len(backups) :
         /\ backups[k].data = Doc
         /\ backups[k].version = OrDefault(Doc, "version", "unknown")

----------------------------------------------------------------------------
(* Export and import through the Facade *)

\* The documents in store when data is exported or imported
TransferDocs ==
  { TwoSiteDoc(TRUE, 0 - 1), DefaultState(0), StaleDoc }

ImportedCategories == <<[id |-> 1, name |-> "Imported", order |-> 0]>>

\* What an imported file holds: no sites; sites only; or sites with
\* categories, settings and analytics of its own
ImportContents ==
  { [exportedAt |-> 0],
    [version |-> <<1, 0, 0>>, sites |-> <<ImportedSite>>],
    [version |-> <<1, 0, 0>>, lastReset |-> 0 - 3,
     sites |-> <<ImportedSite>>, categories |-> ImportedCategories,
     settings |-> [autoReset |-> FALSE],
     analytics |-> [ZeroAnalytics EXCEPT !.totalCheckIns = 7]] }

\* The salt and iv the encrypted files were made with
FileRandom == [salt |-> "salt1", iv |-> "iv1"]

\* The strings importData is given: no JSON, the JSON of a content, or the
\* JSON of its envelope under the password "pw"
TransferInputs ==
  { [parse |-> "garbage"] }
    \cup { JsonStringify(c) : c \in ImportContents }
    \cup { JsonStringify(Encrypt(c, Password("pw"), FileRandom)) : c \in ImportContents }

\* The passwords exportData is given: none, the empty one, a real one
ExportPasswords == { NoPassword, Password(""), Password("pw") }

\* The passwords importData is given: none, the right one, another one
ImportPasswords == { NoPassword, Password("pw"), Password("other") }

\* exportData only reads the store
ReadFaults == { "none", "disabled" }

ExportFormats == { "json", "csv", "xml" }

InitTransfer ==
  /\ storage \in { Stored(d) : d \in TransferDocs } \cup { NoItem }
  /\ now = 0
  /\ backups = <<>>
  /\ migratedData = NotMigrated
  /\ returned = NoCall
  /\ FacadeIdle

\* stateManager.exportData(format, {includeHistory, encrypt, password})
CallExportData ==
  \E format \in ExportFormats, includeHistory \in BOOLEAN, encrypt \in BOOLEAN,
     password \in ExportPasswords, f \in ReadFaults,
     random \in RandomDraws :
    LET out == FacadeExportData(storage, format, includeHistory, encrypt, password, random, now, f)
    IN /\ returned' = [op |-> "exportData", format |-> format,
                       includeHistory |-> includeHistory, encrypt |-> encrypt,
                       password |-> password, fault |-> f,
                       value |-> out.value, events |-> out.events]
       /\ UNCHANGED <<storage, now, backups, migratedData, facadeVars>>

\* stateManager.importData(dataString, password)
CallFacadeImportData ==
  \E input \in TransferInputs, password \in ImportPasswords, f \in Faults :
    LET out == FacadeImportData(storage, input, password, f)
    IN /\ HasDoc => Len(Doc.sites) < MaxTransferSites
       /\ storage' = out.storage
       /\ returned' = [op |-> "importData", input |-> input, password |-> password,
                       fault |-> f, result |-> out.result, events |-> out.events]
       /\ UNCHANGED <<now, backups, migratedData, facadeVars>>

NextTransfer ==
  \/ CallExportData
  \/ CallFacadeImportData
  \/ Tick

SpecTransfer == InitTransfer /\ [][NextTransfer]_vars

----------------------------------------------------------------------------
(* Validation and repair of documents that may be damaged *)

OkCredential == [id |-> "c1", email |-> "e"]

\* Credentials as a damaged document may hold them: complete, without email,
\* null, without id
DamagedCredentials ==
  Arr(<<OkCredential, [id |-> "c2"], NullState, [email |-> "f"], [id |-> "c3", email |-> "g"]>>)

\* Sites as a damaged document may hold them
RepairSites ==
  { [id |-> "s1", name |-> "a", url |-> "u1", credentials |-> DamagedCredentials],
    [id |-> "s2", url |-> "u2", credentials |-> Arr(<<OkCredential>>)],
    [name |-> "c", url |-> "u3", credentials |-> Arr(<<>>)],
    [id |-> "s4", name |-> "d", credentials |-> Arr(<<OkCredential>>)],
    [id |-> "s5", name |-> "e", url |-> "u5"],
    [id |-> "s6", name |-> "f", url |-> "u6", credentials |-> NonArray],
    NullState }

\* Every list of at most MaxRepairSites of them
RepairSiteLists == UNION { [1..n -> RepairSites] : n \in 0..MaxRepairSites }

\* What the sites and the categories of a damaged document may be: missing,
\* no array, or an array
RepairInputs ==
  LET sitesParts == { EmptyObject, [sites |-> NonArray] }
                      \cup { [sites |-> Arr(l)] : l \in RepairSiteLists }
      categoriesParts == { EmptyObject, [categories |-> NonArray],
                           [version |-> CurrentVersion, categories |-> Arr(DefaultCategories)] }
  IN { Spread(a, b) : a \in sitesParts, b \in categoriesParts }

InitRepair ==
  /\ storage \in { Stored(d) : d \in RepairInputs } \cup { NoItem }
  /\ now = 0
  /\ backups = <<>>
  /\ migratedData = NotMigrated
  /\ returned = NoCall
  /\ FacadeIdle

\* migrationService.validateData(storageService.getState())
CallValidateData ==
  /\ returned' = [op |-> "validateData", out |-> validateData(Doc)]
  /\ UNCHANGED <<storage, now, backups, migratedData, facadeVars>>

\* migrationService.repairData(storageService.getState())
CallRepairData ==
  /\ returned' = [op |-> "repairData", out |-> repairData(Doc)]
  /\ UNCHANGED <<storage, now, backups, migratedData, facadeVars>>

NextRepair ==
  \/ CallValidateData
  \/ CallRepairData

SpecRepair == InitRepair /\ [][NextRepair]_vars

----------------------------------------------------------------------------
(* Version strings to compare *)

\* The components version strings are made of: 0, 2, 9 and 10
VersionComponents == { <<0>>, <<2>>, <<9>>, <<1, 0>> }

\* Every version string of at most MaxVersionParts of them
VersionStrings == UNION { [1..n -> VersionComponents] : n \in 1..MaxVersionParts }

InitVersions ==
  /\ storage = NoItem
  /\ now = 0
  /\ backups = <<>>
  /\ migratedData = NotMigrated
  /\ returned = NoCall
  /\ FacadeIdle

\* migrationService.compareVersions(v1, v2).  It reads and writes no state, so
\* one call per behaviour covers every pair of arguments.
CallCompareVersions ==
  /\ returned = NoCall
  /\ \E v1 \in VersionStrings, v2 \in VersionStrings :
       returned' = [op |-> "compareVersions", v1 |-> v1, v2 |-> v2,
                    value |-> compareVersionStrings(v1, v2)]
  /\ UNCHANGED <<storage, now, backups, migratedData, facadeVars>>

NextVersions == CallCompareVersions

SpecVersions == InitVersions /\ [][NextVersions]_vars

----------------------------------------------------------------------------
(* The State Facade at work on a stored document, no subscriber registered *)

FacadeDocs == { TwoSiteDoc(FALSE, 0), DefaultState(0) }

\* Site data as callers give it: a name and credentials only, or, as
\* SitesService.createSite builds it, with an id and timestamps of its own
FacadeSiteDatas ==
  { [name |-> "a", category |-> "work", credentials |-> <<NewCredential("c1")>>],
    [id |-> "s1", name |-> "a", createdAt |-> 0, updatedAt |-> 0,
     credentials |-> <<NewCredential("c1")>>] }

\* Identifiers generateId() returns for sites added through the Facade
FacadeSiteIds == { "s3" }

\* Updates as callers give them: a new name, or a whole site object
FacadeSiteUpdates ==
  { [name |-> "b"],
    [id |-> "s7", name |-> "b", createdAt |-> 0] }

\* What is imported: a file of one site, as JSON or as its envelope
FacadeImportInputs ==
  { JsonStringify([version |-> <<1, 0, 0>>, sites |-> <<ImportedSite>>]),
    JsonStringify(Encrypt([version |-> <<1, 0, 0>>, sites |-> <<ImportedSite>>],
                          Password("pw"), FileRandom)) }

FacadePasswords == { NoPassword, Password("pw") }

\* The clock reads of one Facade call: the calls of this specification are
\* short enough to read the same instant throughout
FacadeClock(n) == { [i \in 1..n |-> now] }

\* The Facade call about to run
Facade(op) == FacadeOf(storage, stateManager, trace, [kind |-> "call", op |-> op])

\* The continuation of a suspended Facade call about to run
FacadeResumed(op) == FacadeOf(storage, stateManager, trace, [kind |-> "resume", op |-> op])

\* The Facade calls made so far
FacadeCalls == Len(SelectSeq(trace, LAMBDA e : e.kind = "call"))

\* A further Facade call may be made
MayCall == FacadeCalls < MaxFacadeCalls

\* An import is suspended at its await
ImportSuspended == pending.op = "importData"

\* What a synchronous Facade call leaves: the store and the Facade as the call
\* left them, its trace, what it was and what it returned.  A suspended import
\* stays suspended; it is noted on it when the stored document changed
\* meanwhile.
FacadeReturns(out, call) ==
  /\ storage' = out.storage
  /\ stateManager' = ManagerOf(out)
  /\ trace' = out.trace
  /\ returned' = Spread(call, [result |-> out.result])
  /\ pending' = IF ImportSuspended /\ out.storage # storage
                THEN [pending EXCEPT !.mutated = TRUE] ELSE pending
  /\ UNCHANGED <<backups, migratedData>>

InitFacade ==
  /\ \E doc \in FacadeDocs :
       /\ storage = Stored(doc)
       /\ stateManager = [NewStateManager EXCEPT !.state = doc]
  /\ now = 0
  /\ backups = <<>>
  /\ migratedData = NotMigrated
  /\ returned = NoCall
  /\ trace = <<>>
  /\ pending = NoCall

CallFacadeAddSite ==
  /\ MayCall
  /\ HasDoc => Len(Doc.sites) < MaxTransferSites
  /\ \E f \in Faults, siteData \in FacadeSiteDatas, newId \in FacadeSiteIds,
        r \in FacadeClock(2) :
       /\ FacadeReturns(FacadeAddSite(Facade("addSite"), siteData, newId, r, f),
                        [op |-> "addSite", siteData |-> siteData, newId |-> newId])
       /\ now' = r[2]

CallFacadeUpdateSite ==
  /\ MayCall
  /\ \E f \in Faults, id \in SiteIdArgs, updates \in FacadeSiteUpdates :
       /\ FacadeReturns(FacadeUpdateSite(Facade("updateSite"), id, updates, now, f),
                        [op |-> "updateSite", id |-> id, updates |-> updates,
                         createdAt |-> IF HasDoc /\ FindIndex(Doc.sites, id) > 0
                                       THEN Doc.sites[FindIndex(Doc.sites, id)].createdAt
                                       ELSE 0])
       /\ now' = now

CallFacadeDeleteSite ==
  /\ MayCall
  /\ \E f \in Faults, id \in SiteIdArgs :
       /\ FacadeReturns(FacadeDeleteSite(Facade("deleteSite"), id, f), [op |-> "deleteSite"])
       /\ now' = now

CallFacadeCheckInCredential ==
  /\ MayCall
  /\ HasDoc => Doc.analytics.totalCheckIns < MaxCheckIns
  /\ \E f \in Faults, siteId \in SiteIdArgs, credentialId \in CredIds,
        r \in FacadeClock(3) :
       /\ FacadeReturns(FacadeCheckInCredential(Facade("checkInCredential"), siteId, credentialId, r, f),
                        [op |-> "checkInCredential"])
       /\ now' = r[3]

CallFacadeResetCredential ==
  /\ MayCall
  /\ \E f \in Faults, siteId \in SiteIdArgs, credentialId \in CredIds :
       /\ FacadeReturns(FacadeResetCredential(Facade("resetCredential"), siteId, credentialId, f),
                        [op |-> "resetCredential"])
       /\ now' = now

CallFacadeResetAllCredentials ==
  /\ MayCall
  /\ \E f \in Faults :
       /\ FacadeReturns(FacadeResetAllCredentials(Facade("resetAllCredentials"), now, f),
                        [op |-> "resetAllCredentials"])
       /\ now' = now

CallFacadeAddCategory ==
  /\ MayCall
  /\ HasDoc => Len(Doc.categories) < MaxCategories
  /\ \E f \in Faults, categoryData \in CategoryDatas, newId \in CategoryIds :
       /\ FacadeReturns(FacadeAddCategory(Facade("addCategory"), categoryData, newId, f),
                        [op |-> "addCategory"])
       /\ now' = now

\* stateManager.setState(updates) on a loaded document
CallFacadeSetState ==
  /\ MayCall
  /\ \E f \in Faults, updates \in StateUpdates :
       /\ ~IsNullState(stateManager.state)
       /\ FacadeReturns(FacadeSetState(Facade("setState"), updates, f),
                        [op |-> "setState"])
       /\ now' = now

CallFacadeUpdateSettings ==
  /\ MayCall
  /\ \E f \in Faults, updates \in { [autoReset |-> b] : b \in BOOLEAN } :
       /\ FacadeReturns(FacadeUpdateSettings(Facade("updateSettings"), updates, f),
                        [op |-> "updateSettings"])
       /\ now' = now

\* stateManager.clearAllData(): it returns with init() suspended
CallFacadeClearAllData ==
  /\ MayCall
  /\ pending = NoCall
  /\ \E f \in Faults, r \in FacadeClock(2) :
       LET out == FacadeClearAllData(Facade("clearAllData"), r, f)
       IN /\ storage' = out.storage
          /\ stateManager' = ManagerOf(out)
          /\ trace' = out.trace
          /\ returned' = [op |-> "clearAllData", result |-> out.result]
          /\ pending' = [op |-> "init",
                         bootstrapped |->
                           IsNullState(GetState(ClearAllData(storage, f), f))]
          /\ now' = r[2]
          /\ UNCHANGED <<backups, migratedData>>

\* The init() that clearAllData started gets through its awaits
InitSettles ==
  /\ pending.op = "init"
  /\ \E f \in Faults, r \in FacadeClock(2) :
       LET out == FacadeInitResumed(FacadeResumed("init"), pending.bootstrapped, r, f)
       IN /\ storage' = out.storage
          /\ stateManager' = ManagerOf(out)
          /\ trace' = out.trace
          /\ returned' = [op |-> "init", result |-> out.result]
          /\ pending' = NoCall
          /\ now' = r[2]
          /\ UNCHANGED <<backups, migratedData>>

\* stateManager.importData(dataString, password) up to its await on the Store,
\* the Store's import having run up to its own await, if it has one
CallFacadeImportDataStarted ==
  /\ MayCall
  /\ pending = NoCall
  /\ HasDoc => Len(Doc.sites) < MaxTransferSites
  /\ \E f \in Faults, input \in FacadeImportInputs, password \in FacadePasswords :
       LET started == StoreImportStarted(storage, input, password, f)
       IN /\ storage' = started.storage
          /\ pending' = [op |-> "importData", input |-> input, password |-> password,
                         awaiting |-> started.result = "awaiting",
                         result |-> started.result, mutated |-> FALSE]
          /\ trace' = Append(trace, [kind |-> "call", op |-> "importData"])
          /\ UNCHANGED <<now, backups, migratedData, returned, stateManager>>

\* decrypt settles and the Store's import goes on, if it was waiting; then the
\* Facade's await on the Store is through
ImportDataSettles ==
  /\ ImportSuspended
  /\ HasDoc => Len(Doc.sites) < MaxTransferSites
  /\ \E f \in Faults :
       LET store == IF pending.awaiting
                    THEN StoreImportResumed(storage, pending.input, pending.password, f)
                    ELSE [storage |-> storage, result |-> pending.result]
           out == FacadeImportSettled(FacadeResumed("importData"), store, f)
       IN /\ storage' = out.storage
          /\ stateManager' = ManagerOf(out)
          /\ trace' = out.trace
          /\ returned' = [op |-> "importData", fault |-> f, result |-> out.result,
                          awaited |-> pending.awaiting, mutated |-> pending.mutated,
                          imported |-> ImportedSite]
          /\ pending' = NoCall
          /\ UNCHANGED <<now, backups, migratedData>>

\* stateManager.setFilters({status, category}) and getFilteredSites()
CallGetFilteredSites ==
  /\ MayCall
  /\ \E status \in { "all", "done", "pending" }, category \in { "", "work" } :
       /\ returned' = [op |-> "getFilteredSites", status |-> status,
                       category |-> category, cached |-> stateManager.state,
                       at |-> now,
                       result |-> GetFilteredSites(stateManager.state, status, category, now)]
       /\ trace' = Append(trace, [kind |-> "call", op |-> "getFilteredSites"])
       /\ UNCHANGED <<storage, now, backups, migratedData, stateManager, pending>>

NextFacade ==
  \/ CallFacadeAddSite
  \/ CallFacadeUpdateSite
  \/ CallFacadeDeleteSite
  \/ CallFacadeCheckInCredential
  \/ CallFacadeResetCredential
  \/ CallFacadeResetAllCredentials
  \/ CallFacadeAddCategory
  \/ CallFacadeSetState
  \/ CallFacadeUpdateSettings
  \/ CallFacadeClearAllData
  \/ InitSettles
  \/ CallFacadeImportDataStarted
  \/ ImportDataSettles
  \/ CallGetFilteredSites

SpecFacade == InitFacade /\ [][NextFacade]_vars

----------------------------------------------------------------------------
(* Subscribers of STATE_CHANGED: registration, removal, and the deliveries of
   the Facade's emits *)

\* on(EVENTS.STATE_CHANGED, callback); subscribers register at start-up,
\* before the first mutation
CallOn ==
  /\ trace = <<>>
  /\ Len(stateManager.handles) < MaxListeners
  /\ \E callback \in Callbacks :
       stateManager' = ManagerOf(On(FacadeOf(storage, stateManager, trace, NoCall),
                                    "state:changed", callback))
  /\ UNCHANGED <<storage, now, backups, migratedData, returned, trace, pending>>

\* A handle that on() returned is invoked, for the first time or again
CallUnsubscribe ==
  \E reg \in 1..Len(stateManager.handles) :
    LET handle == stateManager.handles[reg]
        out == Off(FacadeOf(storage, stateManager, trace, NoCall),
                   handle.event, handle.callback)
    IN /\ stateManager' = [ManagerOf(out) EXCEPT !.handles[reg].used = TRUE]
       /\ returned' = [op |-> "unsubscribe", reg |-> reg, again |-> handle.used]
       /\ UNCHANGED <<storage, now, backups, migratedData, trace, pending>>

\* off(EVENTS.STATE_CHANGED, callback)
CallOff ==
  \E callback \in Callbacks :
    /\ stateManager' = ManagerOf(Off(FacadeOf(storage, stateManager, trace, NoCall),
                                     "state:changed", callback))
    /\ returned' = [op |-> "off"]
    /\ UNCHANGED <<storage, now, backups, migratedData, trace, pending>>

InitEvents ==
  /\ storage = Stored(DefaultState(0))
  /\ stateManager = [NewStateManager EXCEPT !.state = DefaultState(0)]
  /\ now = 0
  /\ backups = <<>>
  /\ migratedData = NotMigrated
  /\ returned = NoCall
  /\ trace = <<>>
  /\ pending = NoCall

NextEvents ==
  \/ CallOn
  \/ CallUnsubscribe
  \/ CallOff
  \/ CallFacadeSetState

SpecEvents == InitEvents /\ [][NextEvents]_vars

----------------------------------------------------------------------------
(* The CryptoService at work: payloads encrypted, envelopes altered on their
   way, envelopes decrypted *)

\* What is encrypted: a field value as encryptField wraps it, and documents
CryptoPayloads ==
  { [value |-> "secret"],
    [version |-> <<1, 0, 0>>, sites |-> <<ImportedSite>>],
    DefaultState(0) }

\* The passwords encrypt is given
SealingPasswords == { Password("pw"), Password("other") }

\* The passwords decrypt is given
OpeningPasswords == { Password("pw"), Password("other"), Password("") }

\* What may have been altered in an envelope before it is decrypted
AlteredParts == { "none", "data", "salt", "iv" }

InitCrypto ==
  /\ storage = NoItem
  /\ now = 0
  /\ backups = <<>>
  /\ migratedData = NotMigrated
  /\ returned = NoCall
  /\ FacadeIdle

\* cryptoService.encrypt(data, password); the call before it is kept when it
\* was an encrypt too
CallEncrypt ==
  \E data \in CryptoPayloads, password \in SealingPasswords, random \in RandomDraws :
    /\ returned' = [op |-> "encrypt", data |-> data, password |-> password,
                    random |-> random,
                    value |-> Encrypt(data, password, random),
                    earlier |-> IF returned.op = "encrypt"
                                THEN <<[data |-> returned.data,
                                        password |-> returned.password,
                                        value |-> returned.value]>>
                                ELSE <<>>]
    /\ UNCHANGED <<storage, now, backups, migratedData, facadeVars>>

\* cryptoService.decrypt(encryptedObject, password) of the envelope just made,
\* as it is or altered
CallDecrypt ==
  /\ returned.op = "encrypt"
  /\ \E password \in OpeningPasswords, part \in AlteredParts :
       /\ returned' = [op |-> "decrypt", sealed |-> returned.data,
                       key |-> returned.password, altered |-> part,
                       password |-> password,
                       out |-> DecryptOutcome(Altered(returned.value, part), password)]
       /\ UNCHANGED <<storage, now, backups, migratedData, facadeVars>>

\* cryptoService.decryptField(encryptedObject, password) of the envelope just
\* made by encryptField, as it is or altered
CallDecryptField ==
  /\ returned.op = "encrypt"
  /\ "value" \in DOMAIN returned.data
  /\ \E password \in OpeningPasswords, part \in AlteredParts :
       /\ returned' = [op |-> "decryptField", sealed |-> returned.data,
                       key |-> returned.password, altered |-> part,
                       password |-> password,
                       out |-> DecryptField(Altered(returned.value, part), password)]
       /\ UNCHANGED <<storage, now, backups, migratedData, facadeVars>>

NextCrypto ==
  \/ CallEncrypt
  \/ CallDecrypt
  \/ CallDecryptField

SpecCrypto == InitCrypto /\ [][NextCrypto]_vars




----------------------------------------------------------------------------
(* Backup buffer claims *)

\* At most 5 backups, newest first, each tagged with its document's version
BufferCappedAndOrdered ==
  /\ Len(backups) <= 5
  /\ \A k \in 1..Len(backups) :
       /\ backups[k].version = OrDefault(backups[k].data, "version", "unknown")
       /\ k > 1 => backups[k - 1].timestamp >= backups[k].timestamp

\* A createBackup that succeeds puts the stored document in front, dated now,
\* keeps the four most recent earlier backups and drops the fifth;
\* restoreBackup of the buffer afterwards returns the new document at 0, what
\* index i - 1 returned before at i, and null past the last slot
NewestBackupFirst ==
  backups' # backups =>
    /\ backups'[1] = [data |-> Doc, timestamp |-> now,
                      version |-> OrDefault(Doc, "version", "unknown")]
    /\ Len(backups') = Min(Len(backups) + 1, 5)
    /\ \A k \in 2..Len(backups') : backups'[k] = backups[k - 1]
    /\ RestoreBackup(backups', 0, "none") = Doc
    /\ \A i \in 1..4 :
         RestoreBackup(backups', i, "none") = RestoreBackup(backups, i - 1, "none")
    /\ \A i \in {0 - 1, 5, 6} : RestoreBackup(backups', i, "none") = NullState

\* What a restoreBackup call returns is null, or the document of the entry
\* at its index, which has at most index newer backups before it, all the
\* others being at most as recent
RestoreReturnsIth ==
  (returned' # returned /\ returned'.op = "restoreBackup") =>
    \/ returned'.value = NullState
    \/ /\ returned'.index \in 0..(Len(backups) - 1)
       /\ returned'.value = backups[returned'.index + 1].data
       /\ \A k \in 1..Len(backups) :
            backups[k].timestamp > backups[returned'.index + 1].timestamp
              => k <= returned'.index

\* C21: after any sequence of createBackup calls the backup buffer holds at
\* most 5 entries, newest first, which are the (up to) 5 most recently backed-up
\* documents, each tagged with its version; restoreBackup(i) returns the i-th
\* most recent of them, or null.
C21_BackupBuffer ==
  /\ []BufferCappedAndOrdered
  /\ [][NewestBackupFirst /\ RestoreReturnsIth]_vars

\* Two backups were taken on a full buffer, and restoreBackup(0) returned the
\* stored document
C21_Witness ==
  /\ Len(backups) = 5
  /\ BackupsTaken = 2
  /\ backups[3].data = BackedUpDoc
  /\ returned.op = "restoreBackup"
  /\ returned.index = 0
  /\ returned.value = Doc

----------------------------------------------------------------------------
(* Repair and validation claims.  Under SpecRepair the stored document never
   changes, so Doc is the document the last call was given. *)

\* The items of an array-valued property, none when it is missing or no array
ItemsOf(x, key) ==
  IF IsNullState(x) THEN <<>>
  ELSE IF key \notin DOMAIN x THEN <<>>
  ELSE IF ~IsArray(x[key]) THEN <<>>
  ELSE x[key].items

\* C22: repairData raises for no input, null and documents whose sites or a
\* site's credentials hold something that is no sequence included, and always
\* returns a document whose sites and categories are sequences.
C22_RepairNeverRaises ==
  returned.op = "repairData" =>
    /\ ~returned.out.raised
    /\ IsArray(returned.out.value.sites)
    /\ IsArray(returned.out.value.categories)

\* The k-th smallest index of a set of indexes
KthOf(S, k) == CHOOSE i \in S : Cardinality({ j \in S : j < i }) = k - 1

\* out holds exactly the credentials of src that have an id and an email, in
\* the order of src
ExactlyValidCredentials(out, src) ==
  LET valid == { i \in 1..Len(src) :
                   ~IsNullState(src[i]) /\ {"id", "email"} \subseteq DOMAIN src[i] }
  IN /\ Len(out) = Cardinality(valid)
     /\ \A k \in 1..Len(out) : out[k] = src[KthOf(valid, k)]

\* out holds exactly the sites of src that have an id and a name, in the order
\* of src, each as it was but for its credentials, of which it keeps exactly
\* the valid ones
ExactlyValidSites(out, src) ==
  LET valid == { i \in 1..Len(src) :
                   ~IsNullState(src[i]) /\ {"id", "name"} \subseteq DOMAIN src[i] }
  IN /\ Len(out) = Cardinality(valid)
     /\ \A k \in 1..Len(out) :
          LET before == src[KthOf(valid, k)]
              after == out[k]
          IN /\ after.id = before.id
             /\ DOMAIN after = DOMAIN before \cup {"credentials"}
             /\ \A key \in DOMAIN before \ {"credentials"} : after[key] = before[key]
             /\ IsArray(after.credentials)
             /\ ExactlyValidCredentials(after.credentials.items, ItemsOf(before, "credentials"))

\* C23: repairData returns exactly the sites of its input that have both an id
\* and a name, in their order and with their ids, each keeping exactly its
\* credentials that have both an id and an email.
C23_RepairKeepsValid ==
  returned.op = "repairData" =>
    /\ ~returned.out.raised
    /\ IsArray(returned.out.value.sites)
    /\ ExactlyValidSites(returned.out.value.sites.items, ItemsOf(Doc, "sites"))

\* The violations validateData is to report: sites or categories that are no
\* sequence, and for every site a missing id, name or url and credentials that
\* are no sequence
Violations(doc) ==
  LET sites == ItemsOf(doc, "sites")
      Missing(i, key) == IsNullState(sites[i]) \/ key \notin DOMAIN sites[i]
  IN { <<0, key>> : key \in { k \in {"sites", "categories"} :
                                k \notin DOMAIN doc \/ ~IsArray(doc[k]) } }
     \cup { p \in (1..Len(sites)) \X {"id", "name", "url"} : Missing(p[1], p[2]) }
     \cup { p \in (1..Len(sites)) \X {"credentials"} :
              Missing(p[1], "credentials") \/ ~IsArray(sites[p[1]].credentials) }

\* C24: validateData does not raise; it returns valid = true exactly when sites
\* and categories are sequences and every site has an id, a name, a url and
\* sequence-typed credentials, and otherwise one error for every violation.
C24_ValidateReports ==
  returned.op = "validateData" =>
    /\ ~returned.out.raised
    /\ HasDoc =>
         /\ returned.out.value.valid <=> Violations(Doc) = {}
         /\ Len(returned.out.value.errors) = Cardinality(Violations(Doc))

----------------------------------------------------------------------------
(* Version comparison claims *)

\* One more than the largest component of the version strings compared
VersionBase ==
  1 + CHOOSE m \in { NumberOf(c) : c \in VersionComponents } :
        \A c \in VersionComponents : NumberOf(c) <= m

\* The number a version string of at most n components denotes when its
\* components are read as numbers, the first weighing most and the missing
\* ones counting as 0
RECURSIVE WeightOf(_, _)
WeightOf(v, n) ==
  IF n = 0 THEN 0
  ELSE WeightOf(v, n - 1) * VersionBase + (IF n <= Len(v) THEN NumberOf(v[n]) ELSE 0)

Sign(x) == IF x < 0 THEN 0 - 1 ELSE IF x > 0 THEN 1 ELSE 0

\* C25: compareVersions compares version strings component by component as
\* numbers: it orders them as the numbers they denote ("2.10.0" is greater than
\* "2.9.0"), missing trailing components count as 0, and
\* compareVersions(a, b) = -compareVersions(b, a).
C25_CompareNumeric ==
  returned.op = "compareVersions" =>
    LET a == returned.v1
        b == returned.v2
        n == MaxVersionParts + 1
    IN /\ returned.value = Sign(WeightOf(a, n) - WeightOf(b, n))
       /\ returned.value = 0 - compareVersionStrings(b, a)
       /\ returned.value = compareVersionStrings(a \o << <<0>> >>, b)
       /\ returned.value = compareVersionStrings(a, b \o << <<0>> >>)
       /\ (a = << <<2>>, <<1, 0>>, <<0>> >> /\ b = << <<2>>, <<9>>, <<0>> >>)
            => returned.value = 1

\* "2.10.0" has been compared with "2.9.0" and found greater
C25_Witness ==
  /\ returned.op = "compareVersions"
  /\ returned.v1 = << <<2>>, <<1, 0>>, <<0>> >>
  /\ returned.v2 = << <<2>>, <<9>>, <<0>> >>
  /\ returned.value = 1

----------------------------------------------------------------------------
(* Export and import claims *)

\* The step is an exportData call that could read the stored document
Exported ==
  /\ returned' # returned
  /\ returned'.op = "exportData"
  /\ returned'.fault = "none"
  /\ HasDoc

\* The (site, credential) pairs of a document
Pairs(doc) ==
  { p \in (1..Len(doc.sites)) \X CredIds :
      \E j \in 1..Len(doc.sites[p[1]].credentials) : doc.sites[p[1]].credentials[j].id = p[2] }

IsEnvelope(text) ==
  /\ ~IsNullState(text)
  /\ text.parse = "json"
  /\ "algorithm" \in DOMAIN text.data

\* C26: exportData with format 'csv' returns, whatever the encrypt flag and the
\* password, no encrypted output but plain CSV text: the header row and one
\* row for every (site, credential) pair.
C26_CsvNeverEncrypted ==
  [][(Exported /\ returned'.format = "csv") =>
       /\ ~IsEnvelope(returned'.value)
       /\ returned'.value.parse = "csv"
       /\ returned'.value.lines[1] = [j \in 1..6 |-> [quoted |-> CsvHeader[j]]]
       /\ Len(returned'.value.lines) = 1 + Cardinality(Pairs(Doc))]_vars

\* C27: exportData with format 'json' and encrypt = true returns no plaintext:
\* for every password, null and the empty one included, the result is a Crypto
\* Envelope or no result at all.
C27_EncryptedJsonNeverPlain ==
  (returned.op = "exportData" /\ returned.format = "json" /\ returned.encrypt)
    => (IsNullState(returned.value) \/ IsEnvelope(returned.value))

\* The step is exportData('json', true, false) of a document at the current
\* version
ExportedCurrentAsJson ==
  /\ Exported
  /\ returned'.format = "json"
  /\ returned'.includeHistory
  /\ ~returned'.encrypt
  /\ Doc.version = CurrentVersion

\* C28 as stated: for every document D at the current version, parsing the JSON
\* text exportData('json', true, false) returns and passing it through migrate
\* yields a document equal to D.
C28_RoundTripIdentity ==
  [][ExportedCurrentAsJson =>
       /\ returned'.value.parse = "json"
       /\ migrate(returned'.value.data, now') = Doc]_vars

\* C28: for every document D at the current version, parsing the JSON text
\* exportData('json', true, false) returns and passing it through migrate
\* yields D with an exportedAt timestamp added: every field of D comes back
\* unchanged, and exportedAt, the time of the export, is the only other field.
C28_RoundTripAddsExportedAt ==
  [][ExportedCurrentAsJson =>
       /\ returned'.value.parse = "json"
       /\ LET back == migrate(returned'.value.data, now')
          IN /\ DOMAIN back = DOMAIN Doc \cup {"exportedAt"}
             /\ \A key \in DOMAIN Doc : back[key] = Doc[key]
             /\ back.exportedAt = now]_vars

\* A document at the current version with two sites and check-in history has
\* been exported as JSON with its history
C28_Witness ==
  /\ returned.op = "exportData"
  /\ returned.format = "json"
  /\ returned.includeHistory
  /\ ~returned.encrypt
  /\ returned.fault = "none"
  /\ HasDoc
  /\ Doc.version = CurrentVersion
  /\ Len(Doc.sites) >= 2
  /\ Doc.sites[1].credentials[1].checkInHistory # <<>>
  /\ ~IsNullState(returned.value)
  /\ returned.value.data.sites = Doc.sites

\* What importData goes on with once it has parsed, and decrypted, its input
ImportedContent(input, password) ==
  IF IsEncrypted(input, password) THEN Decrypt(input.data, password) ELSE input.data

\* C29: a successful importData is additive: afterwards sites is the previous
\* sequence followed by the imported sites, categories are replaced only when
\* the import provides them, and settings, analytics, version and lastReset are
\* unchanged.
C29_ImportAdditive ==
  [][(returned' # returned /\ returned'.op = "importData" /\ returned'.result = "true") =>
       LET data == ImportedContent(returned'.input, returned'.password)
           after == GetState(storage', "none")
       IN /\ ~IsNullState(after)
          /\ after.sites = Doc.sites \o data.sites
          /\ after.categories = (IF "categories" \in DOMAIN data
                                  THEN data.categories ELSE Doc.categories)
          /\ \A key \in {"settings", "analytics", "version", "lastReset"} :
               after[key] = Doc[key]]_vars

\* The imports that are to fail: no JSON, an object without sites, an envelope
\* given without a password or with another password than it was sealed under
IsFailingImport(input, password) ==
  \/ input.parse # "json"
  \/ /\ input.parse = "json"
     /\ IF "algorithm" \in DOMAIN input.data
        THEN \/ ~HasPassword(password)
             \/ input.data.data.key # password.text
        ELSE "sites" \notin DOMAIN input.data

\* C30: an importData that fails (unparseable text, an object without an array
\* sites, a Crypto Envelope with no or the wrong password) returns false, leaves
\* the stored document unchanged, and has the Facade emit neither
\* IMPORT_COMPLETED nor STATE_CHANGED.
C30_FailedImportChangesNothing ==
  [][(returned' # returned /\ returned'.op = "importData") =>
       /\ IsFailingImport(returned'.input, returned'.password) => returned'.result = "false"
       /\ returned'.result = "false" =>
            /\ storage' = storage
            /\ returned'.events = <<>>]_vars

\* An envelope holding sites was imported with the wrong password into a
\* document of two sites, which failed
C30_Witness ==
  /\ returned.op = "importData"
  /\ returned.fault = "none"
  /\ returned.input.parse = "json"
  /\ "algorithm" \in DOMAIN returned.input.data
  /\ "sites" \in DOMAIN returned.input.data.data.sealed
  /\ returned.password = Password("other")
  /\ returned.result = "false"
  /\ returned.events = <<>>
  /\ HasDoc
  /\ Len(Doc.sites) = 2

----------------------------------------------------------------------------
(* Site identity claims *)

\* C31: in every state addSite, updateSite, deleteSite, duplicateSite and
\* importData can reach, no two sites of the stored document share an id.
C31_SiteIdsUnique ==
  HasDoc =>
    \A i, j \in 1..Len(Doc.sites) :
      Doc.sites[i].id = Doc.sites[j].id => i = j

\* The step is a call of the Facade operation op
StepIs(op) ==
  /\ Len(trace') > Len(trace)
  /\ trace'[Len(trace) + 1] = [kind |-> "call", op |-> op]

\* After an updateSite that succeeded the site is found under the id it was
\* updated by, with the createdAt it had
UpdateKeepsIdentity ==
  (StepIs("updateSite") /\ returned'.result = "true") =>
    LET index == FindIndex(Doc'.sites, returned'.id)
    IN /\ index > 0
       /\ Doc'.sites[index].createdAt = returned'.createdAt

\* The site an addSite has stored carries the id the Store generated
AddUsesGeneratedId ==
  (StepIs("addSite") /\ returned'.result = "object" /\ storage' # storage) =>
    Doc'.sites[Len(Doc'.sites)].id = returned'.newId

\* C32: a site's id is immutable.  Whatever updates holds, an id or a
\* createdAt included, after updateSite(id, updates) has succeeded the site is
\* still found under id, with the createdAt it had; and the site addSite has
\* stored is stored under the id the Store generated for it.
C32_SiteIdImmutable == [][UpdateKeepsIdentity /\ AddUsesGeneratedId]_vars

----------------------------------------------------------------------------
(* Facade claims *)

\* Where the last call, or continuation of a call, starts on the trace
LastMarker ==
  CHOOSE i \in 1..Len(trace) :
    /\ trace[i].kind \in { "call", "resume" }
    /\ \A j \in (i + 1)..Len(trace) : trace[j].kind \notin { "call", "resume" }

\* What the last call itself emitted, subscribers' own calls left out
LastEmits ==
  SelectSeq(SubSeq(trace, LastMarker + 1, Len(trace)),
            LAMBDA e : e.kind = "emit" /\ e.depth = 0)

\* The event that goes with a mutation, for those that have one
SpecificEvents(op) ==
  CASE op = "addSite"           -> <<"site:added">>
    [] op = "updateSite"        -> <<"site:updated">>
    [] op = "deleteSite"        -> <<"site:deleted">>
    [] op = "checkInCredential" -> <<"credential:checked">>
    [] op = "importData"        -> <<"import:completed">>
    [] OTHER                    -> <<>>

\* The mutating operations of the Facade
FacadeMutations ==
  { "addSite", "updateSite", "deleteSite", "checkInCredential", "resetCredential",
    "resetAllCredentials", "addCategory", "importData", "setState",
    "updateSettings", "clearAllData" }

\* The last call was a mutation, and it succeeded
MutationSucceeded ==
  /\ returned.op \in FacadeMutations
  /\ returned.result \in { "true", "object", "undefined" }

\* The cached document is the stored one
CacheIsPersisted == stateManager.state = GetState(storage, "none")

\* A mutation that succeeded emitted its specific event, then one
\* STATE_CHANGED with the cached document
EventsOfMutation ==
  MutationSucceeded =>
    /\ [i \in 1..Len(LastEmits) |-> LastEmits[i].event]
         = SpecificEvents(returned.op) \o <<"state:changed">>
    /\ LastEmits[Len(LastEmits)].data = stateManager.state

\* C33: whenever a mutating Facade operation (addSite, updateSite,
\* deleteSite, checkInCredential, resetCredential, resetAllCredentials,
\* addCategory, importData, setState, updateSettings, clearAllData) has
\* returned, the Facade's cached document is the persisted document, and a
\* mutation that succeeded has emitted its specific event, if it has one,
\* followed by exactly one STATE_CHANGED carrying that document.
C33_CacheMatchesStore ==
  (trace # <<>> /\ ~ImportSuspended) => (CacheIsPersisted /\ EventsOfMutation)

\* Every credential of the site is checked in on the day of t
EveryCredentialCheckedIn(site, t) ==
  \A j \in 1..Len(site.credentials) :
    /\ ~IsNull(site.credentials[j].checkedInOn)
    /\ isToday(Val(site.credentials[j].checkedInOn), t)

\* C35: with status 'done' getFilteredSites returns exactly the sites, among
\* those the other filters let through, whose every credential is checked in
\* today, and with status 'pending' exactly the others of them: the two
\* results partition those sites.
C35_DoneMeansEveryCredential ==
  (returned.op = "getFilteredSites" /\ returned.status # "all") =>
    LET others == GetFilteredSites(returned.cached, "all", returned.category, returned.at)
    IN returned.result =
         SelectSeq(others,
                   LAMBDA site : IF returned.status = "done"
                                 THEN EveryCredentialCheckedIn(site, returned.at)
                                 ELSE ~EveryCredentialCheckedIn(site, returned.at))

----------------------------------------------------------------------------
(* Interleaving claims *)

\* The step is the end of an import that was awaiting decryption while the
\* stored document changed
SettlesAfterMutation ==
  /\ ImportSuspended
  /\ pending.awaiting
  /\ pending.mutated
  /\ pending' = NoCall

\* C40: no update is lost when a synchronous Store mutation (addSite,
\* deleteSite, checkInCredential) runs while an importData of an encrypted
\* payload is suspended awaiting decryption: once the import has succeeded,
\* the stored document holds the sites the mutation left, followed by the
\* imported sites.
C40_NoLostUpdate ==
  [][(SettlesAfterMutation /\ returned'.result = "true") =>
       Doc'.sites = Doc.sites \o <<returned'.imported>>]_vars

----------------------------------------------------------------------------
(* Event delivery claims *)

\* The emits on the trace
EmitsOnTrace == SelectSeq(trace, LAMBDA e : e.kind = "emit")

\* The registrations emit number id invoked, in the order it invoked them
InvokedBy(id) ==
  LET deliveries == SelectSeq(trace, LAMBDA d : d.kind = "deliver" /\ d.emit = id)
  IN [k \in 1..Len(deliveries) |-> deliveries[k].reg]

\* How often emit number id invoked registration reg
TimesInvoked(id, reg) ==
  Len(SelectSeq(trace, LAMBDA d : d.kind = "deliver" /\ d.emit = id /\ d.reg = reg))

\* A subscriber unsubscribed while emit number id was delivering
UnsubscribedDuring(id) ==
  \E k \in 1..Len(trace) :
    /\ trace[k].kind = "deliver"
    /\ trace[k].emit = id
    /\ trace[k].callback = "once"

\* C34: on emit(event), every subscriber registered for the event when it
\* starts is invoked exactly once, in registration order; what a subscriber
\* throws neither leaves emit nor keeps later subscribers from being invoked.
C34_EveryoneInOrder ==
  \A k \in 1..Len(EmitsOnTrace) :
    InvokedBy(EmitsOnTrace[k].emit) = EmitsOnTrace[k].regs

\* Every subscriber registered when an emit started during which somebody
\* unsubscribed has been invoked by it exactly once
OthersStillInvoked ==
  \A k \in 1..Len(EmitsOnTrace) :
    UnsubscribedDuring(EmitsOnTrace[k].emit) =>
      \A j \in 1..Len(EmitsOnTrace[k].regs) :
        TimesInvoked(EmitsOnTrace[k].emit, EmitsOnTrace[k].regs[j]) = 1

\* A handle invoked again leaves every registration in place
SecondInvocationRemovesNothing ==
  (returned'.op = "unsubscribe" /\ returned'.again
     /\ stateManager'.handles = stateManager.handles) =>
    stateManager'.listeners = stateManager.listeners

\* C38: when a subscriber unsubscribes, by its handle or by off, while an emit
\* for the same event is delivering, every other subscriber registered when
\* the emit started is still invoked exactly once; and invoking a handle a
\* second time removes no other registration, even when the same callback was
\* registered twice.
C38_UnsubscribeDuringEmit ==
  /\ []OthersStillInvoked
  /\ [][SecondInvocationRemovesNothing]_vars

\* The deliveries of STATE_CHANGED on the trace
StateChangedDeliveries ==
  SelectSeq(trace, LAMBDA d : d.kind = "deliver" /\ d.event = "state:changed")

\* C39: every delivery of STATE_CHANGED hands the subscriber the document
\* that is persisted and cached at the moment of the delivery, and the
\* deliveries reach each subscriber in the order the mutations were applied,
\* also when an earlier subscriber re-enters the Facade with another mutation.
C39_DeliveriesAreCurrent ==
  /\ \A k \in 1..Len(StateChangedDeliveries) :
       /\ StateChangedDeliveries[k].data = StateChangedDeliveries[k].cached
       /\ StateChangedDeliveries[k].data = StateChangedDeliveries[k].stored
  /\ \A j, k \in 1..Len(StateChangedDeliveries) :
       (j < k /\ StateChangedDeliveries[j].reg = StateChangedDeliveries[k].reg)
         => StateChangedDeliveries[j].emit <= StateChangedDeliveries[k].emit

----------------------------------------------------------------------------
(* Encryption claims *)

\* decrypt of what encrypt returned, under the same password, gives the
\* payload back
RoundTrips ==
  returned.op = "encrypt" =>
    DecryptOutcome(returned.value, returned.password)
      = [thrown |-> "none", value |-> returned.data]

\* An earlier envelope of the same payload under the same password has
\* another salt and another iv
NeverSameSaltOrIv ==
  returned.op = "encrypt" =>
    \A k \in 1..Len(returned.earlier) :
      (/\ returned.earlier[k].data = returned.data
       /\ returned.earlier[k].password = returned.password)
        => /\ returned.earlier[k].value.salt # returned.value.salt
           /\ returned.earlier[k].value.iv # returned.value.iv

Unauthenticated ==
  \/ returned.password # returned.key
  \/ returned.altered # "none"

\* C37: decrypt never returns a payload for an envelope it cannot
\* authenticate: with a wrong password, or with any bit of the ciphertext
\* altered, it raises the same decryption error, and it never returns
\* corrupted plaintext; what it does return is the payload that was sealed.
C37_DecryptAuthenticates ==
  /\ returned.op = "decrypt" =>
       IF Unauthenticated
       THEN returned.out =
              [thrown |-> "Failed to decrypt data - incorrect password or corrupted data"]
       ELSE returned.out = [thrown |-> "none", value |-> returned.sealed]
  /\ returned.op = "decryptField" =>
       returned.out = IF Unauthenticated THEN "" ELSE returned.sealed.value

\* decrypt was given the right password and an envelope whose ciphertext had
\* been altered, and it raised
C37_Witness ==
  /\ returned.op = "decrypt"
  /\ returned.password = returned.key
  /\ returned.altered = "data"
  /\ returned.out.thrown # "none"

====
